---- MODULE Spec2Model ----
(***************************************************************************)
(* MailGuard policy core: the Lobster approval-workflow adapter            *)
(* (workflows/lobster_adapter.ts) and the tool firewall with its approval  *)
(* rate limiter (policy/tool_firewall.ts), as state machines over one      *)
(* wall clock.                                                             *)
(***************************************************************************)
EXTENDS Integers, Sequences, FiniteSets, TLC

\* ------------------------------------------------------------------ bounds
\* Actions in one side-effect plan.
MaxActions == 3
\* Clock steps in one run of the workflow engine.
MaxWfTicks == 2
\* Milliseconds the wall clock advances in one step of the workflow engine's run:
\* after one step a workflow's age equals the timeout, after two it exceeds it.
WfTickMs == 60000
\* Tool-call records kept per session in one run.
MaxHistory == 1
\* Approval requests created in one run.
MaxApprovals == 1
\* Clock steps in one run of the tool firewall.
MaxFwTicks == 1
\* Clock steps in one run of the rate limiter.
MaxRlTicks == 4
\* Milliseconds the wall clock advances in one step of the tool firewall's run.
FwTickMs == 30000
\* resolveApproval calls per rate-limiter window in a run that is not about the limiter.
MaxResolves == 2
\* Tool-access checks of one session where a run follows a tool through an approval.
MaxChecks == 2
\* resolveApproval calls per session where a run follows two sessions side by side.
MaxResolvesEach == 1
\* Occurrences of one pattern in a text, and links of a message.
MaxOccurrences == 11
MaxLinks == 2
\* Longest message body sanitized, and the two length budgets it is sanitized under:
\* one the body can exceed, and one it cannot.
MaxText == 7
ShortBudget == 6
LongBudget == 100
\* Clock steps in a run that outlasts a session's maximum age, and the milliseconds
\* of one such step: just beyond the default maxAgeMs of cleanupExpiredSessions.
MaxLifetimeTicks == 1
LifetimeTickMs == 3600001
\* Session policies the store holds at capacity: stands for ToolFirewall.maxSessions
\* (10000 in the source), scaled so that a run fills the store.
maxSessions == 3

\* ------------------------------------------------------------------ program constants
\* config.lobsterIntegration.timeout, in seconds: the schema's minimum.
timeout == 60
\* ApprovalRateLimiter.maxAttempts
maxAttempts == 10
\* ApprovalRateLimiter.windowMs
windowMs == 60000
\* cleanupExpiredSessions: the default of maxAgeMs
maxAgeMs == 3600000

VARIABLES
    now,              \* Date.now(), in milliseconds
    activeWorkflows,  \* LobsterAdapter.activeWorkflows, in insertion order; a workflow's id is its position
    wfRet,            \* the last LobsterAdapter call: operation, arguments, workflow before it, outcome
    config,           \* MailGuardConfig: deniedTools, approvalRequiredActions, lobsterIntegration.enabled
    sessionPolicies,  \* ToolFirewall.sessionPolicies, in insertion order (Map iteration order)
    attempts,         \* ApprovalRateLimiter.attempts: session id -> {count, windowStart}, or NoEntry
    nextId,           \* approval ids handed out so far (generateId never repeats)
    passed,           \* per session, the times of the resolveApproval calls of the last 60 s that got past the limiter
    fwRet,            \* the last ToolFirewall call: operation, arguments, outcome
    risk,             \* the last assessRisk and combineScores calls: input, ML result, outcome
    ingress,          \* GmailIngressHandler.handle: position, request in flight, last response
    limits,           \* RateLimiter.limits: sender domain -> {count, windowStart}, or NoEntry
    san,              \* sanitizeEmailContent applied to a body and to its own result
    resolving         \* a LobsterAdapter.resolveApproval call in flight: suspended at persistWorkflow, or returned

wfVars == <<activeWorkflows, wfRet>>
fwVars == <<config, sessionPolicies, attempts, nextId, passed, fwRet>>
auxVars == <<risk, ingress, limits, san, resolving>>

\* ------------------------------------------------------------------ Lobster adapter: data
WorkflowStatus == {"pending", "in_progress", "completed", "failed", "cancelled"}
StepStatus == {"pending", "in_progress", "completed", "skipped", "failed"}
NoWorkflow == [status |-> "none", createdAt |-> 0, steps |-> <<>>]
CancelReason == "cancelled by operator"

\* A plan's actions: action i has id i; flags[i] is its requiresApproval.
Plans == UNION {[1..n -> BOOLEAN] : n \in 0..MaxActions}

\* Position of the first element of s satisfying Test, 0 when there is none
\* (Array.prototype.find).
FindFirst(s, Test(_)) ==
    IF \E i \in 1..Len(s) : Test(s[i])
    THEN CHOOSE i \in 1..Len(s) : Test(s[i]) /\ \A j \in 1..(i - 1) : ~Test(s[j])
    ELSE 0

IsPendingStep(s) == s.status = "pending"
IsOpenStep(s) == s.status = "pending" \/ s.status = "in_progress"

\* One approval step per action that requires approval, id `step-${action.id}`.
RECURSIVE BuildSteps(_, _)
BuildSteps(plan, i) ==
    IF i > Len(plan) THEN <<>>
    ELSE (IF plan[i]
          THEN <<[id |-> i, type |-> "approval", status |-> "pending",
                  approved |-> "none"]>>
          ELSE <<>>) \o BuildSteps(plan, i + 1)

NewWorkflow(plan, t) ==
    [status |-> "pending", createdAt |-> t, steps |-> BuildSteps(plan, 1)]

\* ------------------------------------------------------------------ Lobster adapter: transitions
\* startWorkflow on a stored workflow.
StartedWorkflow(wf) ==
    LET first == FindFirst(wf.steps, IsPendingStep)
    IN [wf EXCEPT !.status = "in_progress",
                  !.steps = IF first = 0 THEN @
                            ELSE [@ EXCEPT ![first].status = "in_progress"]]

\* resolveApproval with a denial that skips the pending steps only.
ResolvedWorkflowDenyKeepsInProgress(wf, k, approved) ==
    LET s1 == [wf.steps EXCEPT ![k].status = IF approved THEN "completed" ELSE "failed",
                               ![k].approved = IF approved THEN "yes" ELSE "no"]
        pendingSteps == {i \in 1..Len(s1) : IsOpenStep(s1[i])}
        failedSteps == {i \in 1..Len(s1) : s1[i].status = "failed"}
        nextPending == FindFirst(s1, IsPendingStep)
    IN IF pendingSteps = {}
       THEN [wf EXCEPT !.steps = s1,
                       !.status = IF failedSteps # {} THEN "failed" ELSE "completed"]
       ELSE IF approved
       THEN [wf EXCEPT !.steps = IF nextPending = 0 THEN s1
                                 ELSE [s1 EXCEPT ![nextPending].status = "in_progress"]]
       ELSE [wf EXCEPT !.steps = [i \in 1..Len(s1) |->
                                    IF IsPendingStep(s1[i])
                                    THEN [s1[i] EXCEPT !.status = "skipped"]
                                    ELSE s1[i]],
                       !.status = "failed"]

\* resolveApproval with an approval that does not start the next pending step.
ResolvedWorkflowNoAdvance(wf, k, approved) ==
    LET s1 == [wf.steps EXCEPT ![k].status = IF approved THEN "completed" ELSE "failed",
                               ![k].approved = IF approved THEN "yes" ELSE "no"]
        pendingSteps == {i \in 1..Len(s1) : IsOpenStep(s1[i])}
        failedSteps == {i \in 1..Len(s1) : s1[i].status = "failed"}
    IN IF pendingSteps = {}
       THEN [wf EXCEPT !.steps = s1,
                       !.status = IF failedSteps # {} THEN "failed" ELSE "completed"]
       ELSE IF approved
       THEN [wf EXCEPT !.steps = s1]
       ELSE [wf EXCEPT !.steps = [i \in 1..Len(s1) |->
                                    IF i \in pendingSteps
                                    THEN [s1[i] EXCEPT !.status = "skipped"]
                                    ELSE s1[i]],
                       !.status = "failed"]

\* resolveApproval on a stored workflow whose step at position k has the given id.
ResolvedWorkflow(wf, k, approved) ==
    LET s1 == [wf.steps EXCEPT ![k].status = IF approved THEN "completed" ELSE "failed",
                               ![k].approved = IF approved THEN "yes" ELSE "no"]
        pendingSteps == {i \in 1..Len(s1) : IsOpenStep(s1[i])}
        failedSteps == {i \in 1..Len(s1) : s1[i].status = "failed"}
        nextPending == FindFirst(s1, IsPendingStep)
    IN IF pendingSteps = {}
       THEN [wf EXCEPT !.steps = s1,
                       !.status = IF failedSteps # {} THEN "failed" ELSE "completed"]
       ELSE IF approved
       THEN [wf EXCEPT !.steps = IF nextPending = 0 THEN s1
                                 ELSE [s1 EXCEPT ![nextPending].status = "in_progress"]]
       ELSE [wf EXCEPT !.steps = [i \in 1..Len(s1) |->
                                    IF i \in pendingSteps
                                    THEN [s1[i] EXCEPT !.status = "skipped"]
                                    ELSE s1[i]],
                       !.status = "failed"]

\* cancelWorkflow on a stored workflow.
CancelledWorkflow(wf, reason) ==
    [wf EXCEPT !.status = "cancelled",
               !.steps = [i \in 1..Len(wf.steps) |->
                            IF IsOpenStep(wf.steps[i])
                            THEN [wf.steps[i] EXCEPT !.status = "skipped"]
                            ELSE wf.steps[i]]]

\* The expiry test without the test of the workflow's status.
IsExpiredAnyStatus(wf, t) ==
    t - wf.createdAt > timeout * 1000

\* The expiry test passing over a workflow that has no open step.
IsExpiredWithOpenStep(wf, t) ==
    /\ wf.status = "in_progress" /\ t - wf.createdAt > timeout * 1000
    /\ \E i \in 1..Len(wf.steps) : IsOpenStep(wf.steps[i])

\* checkExpiredWorkflows: is this workflow expired at time t?
IsExpired(wf, t) ==
    wf.status = "in_progress" /\ t - wf.createdAt > timeout * 1000

\* checkExpiredWorkflows: what an expired workflow becomes.
ExpiredWorkflow(wf) ==
    [wf EXCEPT !.status = "failed",
               !.steps = [i \in 1..Len(wf.steps) |->
                            IF IsOpenStep(wf.steps[i])
                            THEN [wf.steps[i] EXCEPT !.status = "failed"]
                            ELSE wf.steps[i]]]

\* ------------------------------------------------------------------ Lobster adapter: calls
WfCall(op, w, stepId, approved, pre, threw, complete, allApproved, expired) ==
    [op |-> op, wf |-> w, step |-> stepId, approved |-> approved, pre |-> pre,
     threw |-> threw, workflowComplete |-> complete, allApproved |-> allApproved,
     expired |-> expired]

\* Workflow ids a caller passes: id 1 is the workflow of this run, id 2 is never created.
WorkflowIds == {1, 2}
StepIds == 1..MaxActions
Known(w) == w \in 1..Len(activeWorkflows)

createApprovalWorkflow(plan) ==
    /\ activeWorkflows' = Append(activeWorkflows, NewWorkflow(plan, now))
    /\ wfRet' = WfCall("createApprovalWorkflow", Len(activeWorkflows) + 1, 0, FALSE,
                       NoWorkflow, FALSE, FALSE, FALSE, {})
    /\ UNCHANGED <<now, fwVars, auxVars>>

startWorkflow(w) ==
    /\ IF ~Known(w)
       THEN /\ wfRet' = WfCall("startWorkflow", w, 0, FALSE, NoWorkflow, TRUE, FALSE, FALSE, {})
            /\ UNCHANGED activeWorkflows
       ELSE /\ activeWorkflows' = [activeWorkflows EXCEPT ![w] = StartedWorkflow(@)]
            /\ wfRet' = WfCall("startWorkflow", w, 0, FALSE, activeWorkflows[w],
                               FALSE, FALSE, FALSE, {})
    /\ UNCHANGED <<now, fwVars, auxVars>>

\* resolveApproval that answers an unknown workflow or step with a failure result
\* instead of throwing.
LobsterResolveApprovalNoThrow(w, stepId, approved) ==
    /\ IF ~Known(w)
       THEN /\ wfRet' = WfCall("resolveApproval", w, stepId, approved, NoWorkflow,
                               FALSE, FALSE, FALSE, {})
            /\ UNCHANGED activeWorkflows
       ELSE LET wf == activeWorkflows[w]
                HasId(s) == s.id = stepId
                k == FindFirst(wf.steps, HasId)
            IN IF k = 0 \/ wf.steps[k].type # "approval"
               THEN /\ wfRet' = WfCall("resolveApproval", w, stepId, approved, wf,
                                       FALSE, FALSE, FALSE, {})
                    /\ UNCHANGED activeWorkflows
               ELSE LET post == ResolvedWorkflow(wf, k, approved)
                    IN /\ activeWorkflows' = [activeWorkflows EXCEPT ![w] = post]
                       /\ wfRet' = WfCall("resolveApproval", w, stepId, approved, wf, FALSE,
                                          post.status \in {"completed", "failed"},
                                          post.status = "completed", {})
    /\ UNCHANGED <<now, fwVars, auxVars>>

LobsterResolveApproval(w, stepId, approved) ==
    /\ IF ~Known(w)
       THEN /\ wfRet' = WfCall("resolveApproval", w, stepId, approved, NoWorkflow,
                               TRUE, FALSE, FALSE, {})
            /\ UNCHANGED activeWorkflows
       ELSE LET wf == activeWorkflows[w]
                HasId(s) == s.id = stepId
                k == FindFirst(wf.steps, HasId)
            IN IF k = 0 \/ wf.steps[k].type # "approval"
               THEN /\ wfRet' = WfCall("resolveApproval", w, stepId, approved, wf,
                                       TRUE, FALSE, FALSE, {})
                    /\ UNCHANGED activeWorkflows
               ELSE LET post == ResolvedWorkflow(wf, k, approved)
                    IN /\ activeWorkflows' = [activeWorkflows EXCEPT ![w] = post]
                       /\ wfRet' = WfCall("resolveApproval", w, stepId, approved, wf, FALSE,
                                          post.status \in {"completed", "failed"},
                                          post.status = "completed", {})
    /\ UNCHANGED <<now, fwVars, auxVars>>

cancelWorkflow(w) ==
    /\ IF ~Known(w)
       THEN /\ wfRet' = WfCall("cancelWorkflow", w, 0, FALSE, NoWorkflow, TRUE, FALSE, FALSE, {})
            /\ UNCHANGED activeWorkflows
       ELSE /\ activeWorkflows' = [activeWorkflows EXCEPT ![w] = CancelledWorkflow(@, CancelReason)]
            /\ wfRet' = WfCall("cancelWorkflow", w, 0, FALSE, activeWorkflows[w],
                               FALSE, FALSE, FALSE, {})
    /\ UNCHANGED <<now, fwVars, auxVars>>

checkExpiredWorkflows ==
    LET expired == {w \in 1..Len(activeWorkflows) : IsExpired(activeWorkflows[w], now)}
    IN /\ activeWorkflows' = [w \in 1..Len(activeWorkflows) |->
                                IF w \in expired THEN ExpiredWorkflow(activeWorkflows[w])
                                ELSE activeWorkflows[w]]
       /\ wfRet' = WfCall("checkExpiredWorkflows", 0, 0, FALSE, NoWorkflow,
                          FALSE, FALSE, FALSE, expired)
       /\ UNCHANGED <<now, fwVars, auxVars>>

\* No resolveApproval call is in flight.
NotResolving ==
    [stage |-> "none", wf |-> 0, step |-> 0, approved |-> FALSE, pre |-> NoWorkflow,
     own |-> "pending", workflowComplete |-> FALSE, allApproved |-> FALSE]

\* resolveApproval up to its await: the lookups that throw, the step resolved and the
\* workflow's status and steps updated, all before persistWorkflow is called. The
\* call then waits for the storage write; `own` is the status this call left.
resolveApprovalSuspends(w, stepId, approved) ==
    /\ resolving.stage # "suspended"
    /\ IF ~Known(w)
       THEN /\ wfRet' = WfCall("resolveApproval", w, stepId, approved, NoWorkflow,
                               TRUE, FALSE, FALSE, {})
            /\ UNCHANGED <<activeWorkflows, resolving>>
       ELSE LET wf == activeWorkflows[w]
                HasId(s) == s.id = stepId
                k == FindFirst(wf.steps, HasId)
            IN IF k = 0 \/ wf.steps[k].type # "approval"
               THEN /\ wfRet' = WfCall("resolveApproval", w, stepId, approved, wf,
                                       TRUE, FALSE, FALSE, {})
                    /\ UNCHANGED <<activeWorkflows, resolving>>
               ELSE LET post == ResolvedWorkflow(wf, k, approved)
                    IN /\ activeWorkflows' = [activeWorkflows EXCEPT ![w] = post]
                       /\ resolving' = [stage |-> "suspended", wf |-> w, step |-> stepId,
                                        approved |-> approved, pre |-> wf, own |-> post.status,
                                        workflowComplete |-> FALSE, allApproved |-> FALSE]
                       /\ UNCHANGED wfRet
    /\ UNCHANGED <<now, fwVars, risk, ingress, limits, san>>

\* The storage write settles and resolveApproval runs on: it reads workflow.status
\* as it is now and returns workflowComplete and allApproved computed from it.
resolveApprovalReturns ==
    /\ resolving.stage = "suspended"
    /\ LET status == activeWorkflows[resolving.wf].status
       IN /\ resolving' = [resolving EXCEPT !.stage = "returned",
                                            !.workflowComplete = status \in {"completed", "failed"},
                                            !.allApproved = status = "completed"]
          /\ wfRet' = WfCall("resolveApproval", resolving.wf, resolving.step,
                             resolving.approved, resolving.pre, FALSE,
                             status \in {"completed", "failed"}, status = "completed", {})
    /\ UNCHANGED <<now, activeWorkflows, fwVars, risk, ingress, limits, san>>

\* The wall clock moves on between calls.
WfTick ==
    /\ now + WfTickMs <= MaxWfTicks * WfTickMs
    /\ now' = now + WfTickMs
    /\ UNCHANGED <<wfVars, fwVars, auxVars>>

\* ------------------------------------------------------------------ tool firewall: tool names
\* A tool name is the sequence of its characters.
Alphabet == <<"a", "b", "c", "d", "e", "f", "g", "h", "i", "j", "k", "l", "m",
              "n", "o", "p", "q", "r", "s", "t", "u", "v", "w", "x", "y", "z">>
UpperAlphabet == <<"A", "B", "C", "D", "E", "F", "G", "H", "I", "J", "K", "L", "M",
                   "N", "O", "P", "Q", "R", "S", "T", "U", "V", "W", "X", "Y", "Z">>
Digits == {"0", "1", "2", "3", "4", "5", "6", "7", "8", "9"}

\* String.prototype.toLowerCase, one character.
toLowerCase(c) ==
    IF \E i \in 1..Len(UpperAlphabet) : UpperAlphabet[i] = c
    THEN Alphabet[CHOOSE i \in 1..Len(UpperAlphabet) : UpperAlphabet[i] = c]
    ELSE c

\* The character class [a-z0-9_].
IsToolNameChar(c) ==
    \/ \E i \in 1..Len(Alphabet) : Alphabet[i] = c
    \/ c \in Digits
    \/ c = "_"

\* The normalization without the lowercasing.
normalizeToolNameKeepsCase(tool) ==
    [i \in 1..Len(tool) |-> IF IsToolNameChar(tool[i]) THEN tool[i] ELSE "_"]

\* tool.toLowerCase().replace(/[^a-z0-9_]/g, '_')
normalizeToolName(tool) ==
    [i \in 1..Len(tool) |->
        LET c == toLowerCase(tool[i]) IN IF IsToolNameChar(c) THEN c ELSE "_"]

email == <<"e", "m", "a", "i", "l">>
exec == <<"e", "x", "e", "c">>
bash == <<"b", "a", "s", "h">>
delete_email == <<"d", "e", "l", "e", "t", "e", "_">> \o email
summarize == <<"s", "u", "m", "m", "a", "r", "i", "z", "e">>
translate == <<"t", "r", "a", "n", "s", "l", "a", "t", "e">>
send_email == <<"s", "e", "n", "d", "_">> \o email
apply_label == <<"a", "p", "p", "l", "y", "_", "l", "a", "b", "e", "l">>
move_email == <<"m", "o", "v", "e", "_">> \o email

\* Members of the three static categories (the source lists 19, 16 and 46 names).
SAFE_TOOLS == {summarize, translate}
APPROVAL_REQUIRED_TOOLS == {send_email, apply_label}
HARD_DENIED_TOOLS == {exec, bash, delete_email}

\* The schema's defaults, restricted to the names above, and a configuration that
\* denies a safe and an approval-required tool and asks approval for a hard-denied one.
DefaultConfig ==
    [deniedTools |-> {exec},
     approvalRequiredActions |-> {send_email, delete_email, apply_label, move_email},
     lobsterEnabled |-> TRUE]
CustomConfig ==
    [deniedTools |-> {summarize, send_email},
     approvalRequiredActions |-> {exec, translate},
     lobsterEnabled |-> FALSE]
Configs == {DefaultConfig, CustomConfig}

\* Names a caller requests.
RequestedTools ==
    {exec, <<"E", "x", "e", "c">>, <<"e", "x", "-", "e", "c">>, delete_email,
     summarize, send_email}

\* ------------------------------------------------------------------ tool firewall: data
SessionUniverse == {"", "s1", "s2", "s3", "s4"}
Provenances == {"undefined", "gmail", "api"}
RiskScores == {[defined |-> FALSE, score |-> 0], [defined |-> TRUE, score |-> 85]}
Resolvers == {"alice", "bob"}
ApprovalIds == 1..MaxApprovals

NoEntry == [count |-> 0, windowStart |-> -1]
NoApproval == [id |-> 0, action |-> <<>>, status |-> "none", resolvedBy |-> "none",
               resolvedAt |-> -1, createdAt |-> -1, expiresAt |-> -1]
NoDecision == [allowed |-> FALSE, requiresApproval |-> FALSE, denialType |-> "none",
               approvalType |-> "none", decision |-> "none", reason |-> "none"]
FwNone == [op |-> "none", session |-> "", tool |-> <<>>, decision |-> NoDecision,
           result |-> FALSE, approval |-> 0, approved |-> FALSE, resolvedBy |-> "none",
           limited |-> FALSE, preApproval |-> NoApproval, storeChanged |-> FALSE, evicted |-> <<>>,
           preSize |-> 0, preCreated |-> {}, created |-> <<>>, actions |-> <<>>]

\* A side-effect plan's actions: each has a type and its requiresApproval.
PlannedActions == [type : {send_email, delete_email}, requiresApproval : BOOLEAN]
ActionLists == UNION {[1..n -> PlannedActions] : n \in 0..MaxApprovals}

\* Map.get: position of the session's policy in the store, 0 when it has none.
PolicyIndex(store, sessionId) ==
    LET IsIt(p) == p.sessionId = sessionId IN FindFirst(store, IsIt)

\* Map.set: replaces the entry of an existing key in place, appends a new key.
MapSet(store, policy) ==
    LET k == PolicyIndex(store, policy.sessionId)
    IN IF k = 0 THEN Append(store, policy) ELSE [store EXCEPT ![k] = policy]

\* Map.delete by position.
MapDelete(store, k) ==
    [i \in 1..(Len(store) - 1) |-> IF i < k THEN store[i] ELSE store[i + 1]]

\* ------------------------------------------------------------------ tool firewall: initializeSession
\* The scan for the oldest session: the first policy, in iteration order, whose
\* createdAt is below every createdAt before it and not above any after it.
OldestIndex(store) ==
    CHOOSE k \in 1..Len(store) :
        /\ \A j \in 1..Len(store) : store[k].createdAt <= store[j].createdAt
        /\ \A j \in 1..(k - 1) : store[j].createdAt > store[k].createdAt

\* Positions the capacity check deletes: the oldest one, when the store is at
\* capacity and `if (oldestId)` holds (an empty string is falsy).
EvictedIndices(store) ==
    IF Len(store) >= maxSessions /\ store[OldestIndex(store)].sessionId # ""
    THEN {OldestIndex(store)}
    ELSE {}

AfterEviction(store) ==
    IF EvictedIndices(store) = {} THEN store ELSE MapDelete(store, OldestIndex(store))

NewPolicy(sessionId, provenance, riskScore, cfg, t) ==
    [sessionId |-> sessionId,
     source |-> IF provenance = "undefined" THEN "direct" ELSE provenance,
     riskScore |-> IF riskScore.defined THEN riskScore.score ELSE 0,
     isGmailOrigin |-> provenance = "gmail",
     createdAt |-> t,
     deniedTools |-> cfg.deniedTools \cup HARD_DENIED_TOOLS,
     approvalRequiredActions |-> cfg.approvalRequiredActions,
     pendingApprovals |-> <<>>,
     toolCallHistory |-> <<>>]

initializeSession(sessionId, provenance, riskScore) ==
    LET kept == AfterEviction(sessionPolicies)
        gone == EvictedIndices(sessionPolicies)
    IN /\ sessionPolicies' = MapSet(kept, NewPolicy(sessionId, provenance, riskScore, config, now))
       /\ fwRet' = [FwNone EXCEPT
                      !.op = "initializeSession", !.session = sessionId,
                      !.evicted = IF gone = {} THEN <<>>
                                  ELSE <<[sessionId |-> sessionPolicies[OldestIndex(sessionPolicies)].sessionId,
                                          createdAt |-> sessionPolicies[OldestIndex(sessionPolicies)].createdAt]>>,
                      !.preSize = Len(sessionPolicies),
                      !.preCreated = {sessionPolicies[i].createdAt : i \in 1..Len(sessionPolicies)},
                      !.storeChanged = TRUE]
       /\ UNCHANGED <<now, wfVars, auxVars, config, attempts, nextId, passed>>

\* ------------------------------------------------------------------ tool firewall: checkToolAccess
Verdict(allowed, requiresApproval, denialType, approvalType, decision, reason) ==
    [allowed |-> allowed, requiresApproval |-> requiresApproval, denialType |-> denialType,
     approvalType |-> approvalType, decision |-> decision, reason |-> reason]

\* The decision with the approval-required check ahead of the hard-denial check.
DecisionApprovalFirst(policy, tool, cfg) ==
    IF tool \in APPROVAL_REQUIRED_TOOLS \/ tool \in policy.approvalRequiredActions
    THEN Verdict(FALSE, TRUE, "soft", IF cfg.lobsterEnabled THEN "lobster" ELSE "exec-approval",
                 "pending_approval", "requires_approval")
    ELSE IF tool \in HARD_DENIED_TOOLS \/ tool \in policy.deniedTools
    THEN Verdict(FALSE, FALSE, "hard", "none", "denied", "hard_denial")
    ELSE IF tool \in SAFE_TOOLS
    THEN Verdict(TRUE, FALSE, "none", "none", "allowed", "safe_tool")
    ELSE IF policy.isGmailOrigin
    THEN Verdict(FALSE, TRUE, "soft", "none", "denied", "not_in_allowlist")
    ELSE Verdict(TRUE, FALSE, "none", "none", "allowed", "non_gmail_session")

\* The decision without the fail-secure branch for Gmail-origin sessions.
DecisionUnknownAllowed(policy, tool, cfg) ==
    IF tool \in HARD_DENIED_TOOLS \/ tool \in policy.deniedTools
    THEN Verdict(FALSE, FALSE, "hard", "none", "denied", "hard_denial")
    ELSE IF tool \in SAFE_TOOLS
    THEN Verdict(TRUE, FALSE, "none", "none", "allowed", "safe_tool")
    ELSE IF tool \in APPROVAL_REQUIRED_TOOLS \/ tool \in policy.approvalRequiredActions
    THEN Verdict(FALSE, TRUE, "soft", IF cfg.lobsterEnabled THEN "lobster" ELSE "exec-approval",
                 "pending_approval", "requires_approval")
    ELSE Verdict(TRUE, FALSE, "none", "none", "allowed", "non_gmail_session")

\* The decision that allows an approval-required tool once the session holds an
\* approved approval for it.
DecisionApprovedAllows(policy, tool, cfg) ==
    IF tool \in HARD_DENIED_TOOLS \/ tool \in policy.deniedTools
    THEN Verdict(FALSE, FALSE, "hard", "none", "denied", "hard_denial")
    ELSE IF tool \in SAFE_TOOLS
    THEN Verdict(TRUE, FALSE, "none", "none", "allowed", "safe_tool")
    ELSE IF tool \in APPROVAL_REQUIRED_TOOLS \/ tool \in policy.approvalRequiredActions
    THEN IF \E a \in 1..Len(policy.pendingApprovals) :
               /\ policy.pendingApprovals[a].action = tool
               /\ policy.pendingApprovals[a].status = "approved"
         THEN Verdict(TRUE, FALSE, "none", "none", "allowed", "approved")
         ELSE Verdict(FALSE, TRUE, "soft", IF cfg.lobsterEnabled THEN "lobster" ELSE "exec-approval",
                      "pending_approval", "requires_approval")
    ELSE IF policy.isGmailOrigin
    THEN Verdict(FALSE, TRUE, "soft", "none", "denied", "not_in_allowlist")
    ELSE Verdict(TRUE, FALSE, "none", "none", "allowed", "non_gmail_session")

\* The decision for a session that has a policy, on the normalized tool name, with
\* the record it appends to the history (decision, reason).
Decision(policy, tool, cfg) ==
    IF tool \in HARD_DENIED_TOOLS \/ tool \in policy.deniedTools
    THEN Verdict(FALSE, FALSE, "hard", "none", "denied", "hard_denial")
    ELSE IF tool \in SAFE_TOOLS
    THEN Verdict(TRUE, FALSE, "none", "none", "allowed", "safe_tool")
    ELSE IF tool \in APPROVAL_REQUIRED_TOOLS \/ tool \in policy.approvalRequiredActions
    THEN Verdict(FALSE, TRUE, "soft", IF cfg.lobsterEnabled THEN "lobster" ELSE "exec-approval",
                 "pending_approval", "requires_approval")
    ELSE IF policy.isGmailOrigin
    THEN Verdict(FALSE, TRUE, "soft", "none", "denied", "not_in_allowlist")
    ELSE Verdict(TRUE, FALSE, "none", "none", "allowed", "non_gmail_session")

\* The decision for a session without a policy.
NoPolicyDecision == Verdict(TRUE, FALSE, "none", "none", "none", "none")

\* Length of the session's tool-call history, 0 without a policy.
HistoryLen(sessionId) ==
    LET k == PolicyIndex(sessionPolicies, sessionId)
    IN IF k = 0 THEN 0 ELSE Len(sessionPolicies[k].toolCallHistory)

\* checkToolAccess that keeps only the record of the latest call.
checkToolAccessKeepsLast(sessionId, requestedTool) ==
    LET k == PolicyIndex(sessionPolicies, sessionId)
        tool == normalizeToolName(requestedTool)
    IN /\ IF k = 0
          THEN /\ UNCHANGED sessionPolicies
               /\ fwRet' = [FwNone EXCEPT !.op = "checkToolAccess", !.session = sessionId,
                                          !.tool = requestedTool, !.decision = NoPolicyDecision]
          ELSE LET d == Decision(sessionPolicies[k], tool, config)
               IN /\ sessionPolicies' =
                        [sessionPolicies EXCEPT ![k].toolCallHistory =
                            <<[tool |-> tool, timestamp |-> now,
                               decision |-> d.decision, reason |-> d.reason]>>]
                  /\ fwRet' = [FwNone EXCEPT !.op = "checkToolAccess", !.session = sessionId,
                                             !.tool = requestedTool, !.decision = d,
                                             !.storeChanged = TRUE]
       /\ UNCHANGED <<now, wfVars, auxVars, config, attempts, nextId, passed>>

checkToolAccess(sessionId, requestedTool) ==
    LET k == PolicyIndex(sessionPolicies, sessionId)
        tool == normalizeToolName(requestedTool)
    IN /\ IF k = 0
          THEN /\ UNCHANGED sessionPolicies
               /\ fwRet' = [FwNone EXCEPT !.op = "checkToolAccess", !.session = sessionId,
                                          !.tool = requestedTool, !.decision = NoPolicyDecision]
          ELSE LET d == Decision(sessionPolicies[k], tool, config)
               IN /\ sessionPolicies' =
                        [sessionPolicies EXCEPT ![k].toolCallHistory =
                            Append(@, [tool |-> tool, timestamp |-> now,
                                       decision |-> d.decision, reason |-> d.reason])]
                  /\ fwRet' = [FwNone EXCEPT !.op = "checkToolAccess", !.session = sessionId,
                                             !.tool = requestedTool, !.decision = d,
                                             !.storeChanged = TRUE]
       /\ UNCHANGED <<now, wfVars, auxVars, config, attempts, nextId, passed>>

\* ------------------------------------------------------------------ tool firewall: createSideEffectPlan
\* The approval requests of the actions that require approval, in order, with the
\* ids first + 1, first + 2, ...
RECURSIVE NewApprovals(_, _, _, _)
NewApprovals(actions, i, first, t) ==
    IF i > Len(actions) THEN <<>>
    ELSE IF actions[i].requiresApproval
    THEN <<[id |-> first + 1, action |-> actions[i].type, status |-> "pending",
            resolvedBy |-> "none", resolvedAt |-> -1, createdAt |-> t,
            expiresAt |-> t + timeout * 1000]>>
         \o NewApprovals(actions, i + 1, first + 1, t)
    ELSE NewApprovals(actions, i + 1, first, t)

createSideEffectPlan(sessionId, actions) ==
    LET k == PolicyIndex(sessionPolicies, sessionId)
        approvals == IF k = 0 THEN <<>> ELSE NewApprovals(actions, 1, nextId, now)
    IN /\ nextId + Len(approvals) <= MaxApprovals
       /\ nextId' = nextId + Len(approvals)
       /\ sessionPolicies' =
             IF k = 0 THEN sessionPolicies
             ELSE [sessionPolicies EXCEPT ![k].pendingApprovals = @ \o approvals]
       /\ fwRet' = [FwNone EXCEPT !.op = "createSideEffectPlan", !.session = sessionId,
                                  !.created = approvals, !.actions = actions,
                                  !.storeChanged = approvals # <<>>]
       /\ UNCHANGED <<now, wfVars, auxVars, config, attempts, passed>>

\* ------------------------------------------------------------------ tool firewall: resolveApproval
\* The limiter with the comparison against maxAttempts off by one.
LimiterCheckOffByOne(entry, t) ==
    IF entry = NoEntry \/ t - entry.windowStart > windowMs
    THEN [ok |-> TRUE, entry |-> [count |-> 1, windowStart |-> t]]
    ELSE IF entry.count > maxAttempts
    THEN [ok |-> FALSE, entry |-> entry]
    ELSE [ok |-> TRUE, entry |-> [entry EXCEPT !.count = @ + 1]]

\* ApprovalRateLimiter.check at time t: whether the call gets past, and the entry
\* the call leaves for the session.
LimiterCheck(entry, t) ==
    IF entry = NoEntry \/ t - entry.windowStart > windowMs
    THEN [ok |-> TRUE, entry |-> [count |-> 1, windowStart |-> t]]
    ELSE IF entry.count >= maxAttempts
    THEN [ok |-> FALSE, entry |-> entry]
    ELSE [ok |-> TRUE, entry |-> [entry EXCEPT !.count = @ + 1]]

\* The store with the approval at position a of the policy at position k marked,
\* whatever its status was.
StoreResolved(store, k, a, approved, resolvedBy, t) ==
    [store EXCEPT ![k].pendingApprovals[a].status = IF approved THEN "approved" ELSE "denied",
                  ![k].pendingApprovals[a].resolvedBy = resolvedBy,
                  ![k].pendingApprovals[a].resolvedAt = t]

Outcome(result, store, entry, limited, passedLimiter, pre) ==
    [result |-> result, store |-> store, entry |-> entry, limited |-> limited,
     passedLimiter |-> passedLimiter, preApproval |-> pre]

\* resolveApproval that marks the approval before it asks the rate limiter.
ResolveOutcomeMarksFirst(store, entry, sessionId, approvalId, approved, resolvedBy, t) ==
    LET k == PolicyIndex(store, sessionId)
        HasId(x) == x.id = approvalId
        a == IF k = 0 THEN 0 ELSE FindFirst(store[k].pendingApprovals, HasId)
        marked == IF a = 0 THEN store ELSE StoreResolved(store, k, a, approved, resolvedBy, t)
        pre == IF a = 0 THEN NoApproval ELSE store[k].pendingApprovals[a]
        c == LimiterCheck(entry, t)
    IN IF k = 0 THEN Outcome(FALSE, store, entry, FALSE, FALSE, NoApproval)
       ELSE IF ~c.ok THEN Outcome(FALSE, marked, c.entry, TRUE, FALSE, NoApproval)
       ELSE IF a = 0 THEN Outcome(FALSE, store, c.entry, FALSE, TRUE, NoApproval)
       ELSE Outcome(TRUE, marked, c.entry, FALSE, TRUE, pre)

\* resolveApproval: the returned boolean, the store and the limiter entry the call
\* leaves, whether the limiter refused it or let it past, and the approval it
\* found as it was before the call.
ResolveOutcome(store, entry, sessionId, approvalId, approved, resolvedBy, t) ==
    LET k == PolicyIndex(store, sessionId)
        HasId(x) == x.id = approvalId
        a == IF k = 0 THEN 0 ELSE FindFirst(store[k].pendingApprovals, HasId)
        c == LimiterCheck(entry, t)
    IN IF k = 0 THEN Outcome(FALSE, store, entry, FALSE, FALSE, NoApproval)
       ELSE IF ~c.ok THEN Outcome(FALSE, store, c.entry, TRUE, FALSE, NoApproval)
       ELSE IF a = 0 THEN Outcome(FALSE, store, c.entry, FALSE, TRUE, NoApproval)
       ELSE Outcome(TRUE, StoreResolved(store, k, a, approved, resolvedBy, t), c.entry,
                    FALSE, TRUE, store[k].pendingApprovals[a])

\* The pass times not older than the window, the call at time t included.
Logged(times, t) ==
    LET recent == {i \in 1..Len(times) : t - times[i] <= windowMs}
    IN [i \in 1..Cardinality(recent) |-> times[Len(times) - Cardinality(recent) + i]] \o <<t>>

\* resolveApproval whose rate limiter keeps one budget for all sessions.
FirewallResolveApprovalSharedBudget(sessionId, approvalId, approved, resolvedBy) ==
    LET o == ResolveOutcome(sessionPolicies, attempts[sessionId], sessionId, approvalId,
                            approved, resolvedBy, now)
    IN /\ sessionPolicies' = o.store
       /\ attempts' = [s \in SessionUniverse |-> o.entry]
       /\ passed' = IF o.passedLimiter THEN [passed EXCEPT ![sessionId] = Logged(@, now)]
                    ELSE passed
       /\ fwRet' = [FwNone EXCEPT !.op = "resolveApproval", !.session = sessionId,
                                  !.approval = approvalId, !.approved = approved,
                                  !.resolvedBy = resolvedBy, !.result = o.result,
                                  !.limited = o.limited, !.preApproval = o.preApproval,
                                  !.storeChanged = o.store # sessionPolicies]
       /\ UNCHANGED <<now, wfVars, auxVars, config, nextId>>

FirewallResolveApproval(sessionId, approvalId, approved, resolvedBy) ==
    LET o == ResolveOutcome(sessionPolicies, attempts[sessionId], sessionId, approvalId,
                            approved, resolvedBy, now)
    IN /\ sessionPolicies' = o.store
       /\ attempts' = [attempts EXCEPT ![sessionId] = o.entry]
       /\ passed' = IF o.passedLimiter THEN [passed EXCEPT ![sessionId] = Logged(@, now)]
                    ELSE passed
       /\ fwRet' = [FwNone EXCEPT !.op = "resolveApproval", !.session = sessionId,
                                  !.approval = approvalId, !.approved = approved,
                                  !.resolvedBy = resolvedBy, !.result = o.result,
                                  !.limited = o.limited, !.preApproval = o.preApproval,
                                  !.storeChanged = o.store # sessionPolicies]
       /\ UNCHANGED <<now, wfVars, auxVars, config, nextId>>

\* ToolFirewall.getPendingApprovals: the session's approvals whose status is pending.
FirewallGetPendingApprovals(store, sessionId) ==
    IF PolicyIndex(store, sessionId) = 0 THEN <<>>
    ELSE SelectSeq(store[PolicyIndex(store, sessionId)].pendingApprovals,
                   LAMBDA a : a.status = "pending")

\* ------------------------------------------------------------------ tool firewall: cleanupExpiredSessions
\* The timestamp of the policy's last tool-call record, its createdAt without one.
LastActivity(policy) ==
    IF Len(policy.toolCallHistory) > 0
    THEN policy.toolCallHistory[Len(policy.toolCallHistory)].timestamp
    ELSE policy.createdAt

cleanupExpiredSessions ==
    /\ sessionPolicies' = SelectSeq(sessionPolicies, LAMBDA p : ~(now - LastActivity(p) > maxAgeMs))
    /\ fwRet' = [FwNone EXCEPT !.op = "cleanupExpiredSessions",
                               !.storeChanged = sessionPolicies' # sessionPolicies]
    /\ UNCHANGED <<now, wfVars, auxVars, config, attempts, nextId, passed>>

LifetimeTick ==
    /\ now + LifetimeTickMs <= MaxLifetimeTicks * LifetimeTickMs
    /\ now' = now + LifetimeTickMs
    /\ UNCHANGED <<wfVars, fwVars, auxVars>>

\* The wall clock moves on between calls.
FwTick ==
    /\ now + FwTickMs <= MaxFwTicks * FwTickMs
    /\ now' = now + FwTickMs
    /\ UNCHANGED <<wfVars, fwVars, auxVars>>

RlTick ==
    /\ now + FwTickMs <= MaxRlTicks * FwTickMs
    /\ now' = now + FwTickMs
    /\ UNCHANGED <<wfVars, fwVars, auxVars>>

\* ------------------------------------------------------------------ risk heuristics
\* Weights of two entries of the pattern table (the table's weights run from 5 to 45).
PatternWeights == <<30, 5>>

\* Signals one pattern records for a text that holds it occ times: the scan of a
\* pattern stops once 10 signals carry its description.
Recorded(occ) == IF occ >= 10 THEN 10 ELSE occ

RECURSIVE PatternWeight(_, _)
PatternWeight(occ, i) ==
    IF i > Len(PatternWeights) THEN 0
    ELSE PatternWeights[i] * Recorded(occ[i]) + PatternWeight(occ, i + 1)

\* A suspicious link weighs 15, and 10 more for each of its suspicion reasons that
\* names an IP address or a lookalike domain.
RECURSIVE LinkWeight(_, _)
LinkWeight(links, i) ==
    IF i > Len(links) THEN 0
    ELSE (IF links[i].suspicious THEN 15 + 10 * links[i].flagged ELSE 0) + LinkWeight(links, i + 1)

AuthWeight(auth) ==
    IF ~auth.present THEN 0
    ELSE (IF auth.spf = "fail" THEN 20 ELSE 0)
         + (IF auth.dkim = "fail" THEN 20 ELSE 0)
         + (IF auth.dmarc = "fail" THEN 25 ELSE 0)

Recommendation(score, cfg) ==
    IF score >= 80 THEN "block"
    ELSE IF score >= cfg.riskThreshold THEN "quarantine"
    ELSE IF score >= 30 THEN "review"
    ELSE "allow"

\* The total weight before the cap.
TotalWeight(in, cfg) ==
    LET found == PatternWeight(in.occ, 1) + LinkWeight(in.links, 1) + AuthWeight(in.auth)
        listed == found + (IF in.senderDomain \in cfg.blockedSenderDomains THEN 50 ELSE 0)
    IN IF in.senderDomain \in cfg.allowedSenderDomains THEN listed \div 2 ELSE listed

\* assessRisk without the cap at 100.
assessRiskUncapped(in, cfg) ==
    LET score == TotalWeight(in, cfg)
    IN [score |-> score, recommendation |-> Recommendation(score, cfg)]

assessRisk(in, cfg) ==
    LET total == TotalWeight(in, cfg)
        score == IF total < 100 THEN total ELSE 100
    IN [score |-> score, recommendation |-> Recommendation(score, cfg)]

\* The ML classifier's result: none, or a score in tenths of a point (0..1000).
NoML == [present |-> FALSE, tenths |-> 0]

\* combineScores: Math.min(100, Math.round(h * (1 - w) + ml * w)), the weight w in
\* tenths; Math.round rounds halves up.
combineScores(heuristicScore, mlResult, mlWeight) ==
    IF ~mlResult.present THEN heuristicScore
    ELSE LET hundredths == heuristicScore * (10 - mlWeight) * 10 + mlResult.tenths * mlWeight
             rounded == (hundredths + 50) \div 100
         IN IF rounded < 100 THEN rounded ELSE 100

\* The schema's remaining defaults, with sender lists and an ML endpoint as a
\* deployment sets them.
IngressSettings(ml, quarantine, perSender) ==
    [riskThreshold |-> 70,
     quarantineEnabled |-> quarantine,
     enableMLClassifier |-> ml,
     mlClassifierEndpoint |-> IF ml THEN "https://ml.test/classify" ELSE "undefined",
     rateLimitPerSender |-> perSender,
     blockedSenderDomains |-> {"blocked.test", "both.test"},
     allowedSenderDomains |-> {"allowed.test", "both.test"},
     maxPayloadSize |-> 1024,
     webhookSecret |-> "secret"]

RiskConfig == DefaultConfig @@ IngressSettings(FALSE, TRUE, 10)

\* Texts hold a pattern not at all, once, or more often than the signal limit.
Occurrences == {0, 1, MaxOccurrences}
LinkKinds == {[suspicious |-> FALSE, flagged |-> 0], [suspicious |-> TRUE, flagged |-> 0],
              [suspicious |-> TRUE, flagged |-> 2]}
AuthResults ==
    {[present |-> FALSE, spf |-> "none", dkim |-> "none", dmarc |-> "none"]}
    \cup [present : {TRUE}, spf : {"pass", "fail"}, dkim : {"pass", "fail"}, dmarc : {"pass", "fail"}]
SenderDomains == {"plain.test", "blocked.test", "allowed.test", "both.test"}
RiskInputs ==
    [occ : [1..Len(PatternWeights) -> Occurrences],
     links : UNION {[1..n -> LinkKinds] : n \in 0..MaxLinks},
     auth : AuthResults,
     senderDomain : SenderDomains]
MLResults == {NoML} \cup [present : {TRUE}, tenths : {0, 5, 333, 995, 1000}]

NoRisk == [op |-> "none", in |-> <<>>, score |-> 0, recommendation |-> "none",
           ml |-> NoML, combined |-> 0]

\* The risk of one message assessed, and then combined with an ML result under the
\* default weight 0.3.
AssessMessage(in) ==
    /\ risk.op = "none"
    /\ LET r == assessRisk(in, config)
       IN risk' = [op |-> "assessRisk", in |-> in, score |-> r.score,
                   recommendation |-> r.recommendation, ml |-> NoML, combined |-> r.score]
    /\ UNCHANGED <<now, wfVars, fwVars, ingress, limits, san, resolving>>

CombineWithML(ml) ==
    /\ risk.op = "assessRisk"
    /\ risk' = [risk EXCEPT !.op = "combineScores", !.ml = ml,
                            !.combined = combineScores(risk.score, ml, 3)]
    /\ UNCHANGED <<now, wfVars, fwVars, ingress, limits, san, resolving>>

\* ------------------------------------------------------------------ Gmail ingress handler
\* Session ids the handler makes up (gmail-<uuid>), in the order it hands them out.
SessionNames == <<"s1", "s2", "s3", "s4">>

\* The x-webhook-secret / authorization header of a request.
AuthHeaders == {"undefined", "wrong", "secret", "Bearer secret"}

\* authHeader.startsWith('Bearer ') ? authHeader.slice(7) : authHeader
WithoutBearer(header) == IF header = "Bearer secret" THEN "secret" ELSE header

validateAuthentication(req, cfg) ==
    /\ req.authHeader # "undefined"
    /\ WithoutBearer(req.authHeader) = cfg.webhookSecret

\* Risk inputs of four messages: no match, one match (30), four matches (70),
\* more matches than the signal limit (100).
MessageRisks ==
    {[occ |-> occ, links |-> <<>>,
      auth |-> [present |-> FALSE, spf |-> "none", dkim |-> "none", dmarc |-> "none"]] :
        occ \in {<<0, 0>>, <<1, 0>>, <<2, 2>>, <<MaxOccurrences, 0>>}}

\* A well-formed request from a sender that is not blocklisted.
GoodRequest ==
    [authHeader |-> "Bearer secret", size |-> 1024, data |-> "valid",
     messagePayload |-> "present", senderDomain |-> "plain.test",
     risk |-> CHOOSE r \in MessageRisks : r.occ = <<0, 0>>,
     internalDate |-> "valid", storage |-> "ok", endpoint |-> "answers"]

\* Requests: the well-formed ones over every message, date and sender, those whose
\* audit log cannot be stored or whose ML endpoint never answers, and those that
\* fail one of the handler's first tests.
Requests ==
    {[GoodRequest EXCEPT !.risk = r, !.internalDate = d, !.senderDomain = dom] :
        r \in MessageRisks, d \in {"valid", "invalid"},
        dom \in {"plain.test", "blocked.test"}}
    \cup {[GoodRequest EXCEPT !.authHeader = h, !.storage = st] :
            h \in AuthHeaders, st \in {"ok", "fails"}}
    \cup {[GoodRequest EXCEPT !.endpoint = "silent", !.risk = r] : r \in MessageRisks}
    \cup {[GoodRequest EXCEPT !.size = 1025], [GoodRequest EXCEPT !.data = "undefined"],
          [GoodRequest EXCEPT !.data = "malformed"],
          [GoodRequest EXCEPT !.messagePayload = "undefined"]}

NoRequest == [authHeader |-> "undefined"]
NoResponse == [http |-> 0, status |-> "none", code |-> "none"]
Response(http, status, code) == [http |-> http, status |-> status, code |-> code]

\* RateLimiter.check of the ingress handler: a window of one hour per sender domain.
RateCheck(entry, maxPerWindow, t) ==
    IF entry = NoEntry \/ t - entry.windowStart > 3600000
    THEN [allowed |-> TRUE, entry |-> [count |-> 1, windowStart |-> t]]
    ELSE IF entry.count >= maxPerWindow
    THEN [allowed |-> FALSE, entry |-> entry]
    ELSE [allowed |-> TRUE, entry |-> [entry EXCEPT !.count = @ + 1]]

shouldQuarantine(riskScore, cfg) ==
    /\ cfg.quarantineEnabled
    /\ riskScore.recommendation \in {"quarantine", "block"}

\* What handle answers before it processes the message, "continue" when it goes on:
\* authentication, payload size, payload structure, notification JSON, message payload.
\* A storage failure in emitAuditLog lands in the catch block.
FirstTests(req, cfg) ==
    IF ~validateAuthentication(req, cfg)
    THEN IF req.storage = "fails" THEN Response(500, "none", "INTERNAL_ERROR")
         ELSE Response(401, "none", "AUTH_FAILED")
    ELSE IF req.size > cfg.maxPayloadSize
    THEN IF req.storage = "fails" THEN Response(500, "none", "INTERNAL_ERROR")
         ELSE Response(413, "none", "PAYLOAD_TOO_LARGE")
    ELSE IF req.data = "undefined" THEN Response(400, "none", "INVALID_PAYLOAD")
    ELSE IF req.data = "malformed" THEN Response(500, "none", "INTERNAL_ERROR")
    ELSE IF req.messagePayload = "undefined" THEN Response(200, "acknowledged", "none")
    ELSE IF req.senderDomain \in cfg.blockedSenderDomains
    THEN Response(500, "none", "PROCESSING_FAILED")
    ELSE Response(0, "continue", "none")

\* Whether processMessage calls the ML classifier.
CallsML(cfg) == cfg.enableMLClassifier /\ cfg.mlClassifierEndpoint # "undefined"

HandlerResult(resp, store, lim, sessions, riskScore, heuristic) ==
    [resp |-> resp, store |-> store, limits |-> lim, sessions |-> sessions,
     score |-> riskScore.score, recommendation |-> riskScore.recommendation,
     heuristic |-> heuristic]

\* handle from the risk assessment on, given the ML result (NoML when the classifier
\* is off or gave nothing): the audit log of processMessage, the rate limit, the
\* quarantine, the session, the response. serializeEnvelope throws on a date that
\* is not a time (internalDate not a number), after the session was initialized.
RestOfHandle(req, ml, store, lim, sessions, cfg, t) ==
    LET heur == assessRisk(req.risk @@ [senderDomain |-> req.senderDomain], cfg)
        score == combineScores(heur.score, ml, 3)
        riskScore == [score |-> score, recommendation |-> heur.recommendation]
        rc == RateCheck(lim[req.senderDomain], cfg.rateLimitPerSender, t)
        lim2 == [lim EXCEPT ![req.senderDomain] = rc.entry]
        sid == SessionNames[sessions + 1]
        store2 == MapSet(AfterEviction(store),
                         NewPolicy(sid, "gmail", [defined |-> TRUE, score |-> score], cfg, t))
    IN IF req.storage = "fails"
       THEN HandlerResult(Response(500, "none", "PROCESSING_FAILED"), store, lim, sessions,
                          riskScore, heur.score)
       ELSE IF ~rc.allowed
       THEN HandlerResult(Response(429, "none", "RATE_LIMITED"), store, lim2, sessions,
                          riskScore, heur.score)
       ELSE IF shouldQuarantine(riskScore, cfg)
       THEN HandlerResult(Response(200, "quarantined", "none"), store, lim2, sessions,
                          riskScore, heur.score)
       ELSE IF req.internalDate = "invalid"
       THEN HandlerResult(Response(500, "none", "INTERNAL_ERROR"), store2, lim2, sessions + 1,
                          riskScore, heur.score)
       ELSE HandlerResult(Response(200, "processed", "none"), store2, lim2, sessions + 1,
                          riskScore, heur.score)

StoredIds(store) == {store[i].sessionId : i \in 1..Len(store)}

Idle == [pc |-> "idle", req |-> NoRequest, resp |-> NoResponse, preIds |-> {},
         sessions |-> 0, score |-> 0, recommendation |-> "none", heuristic |-> 0]

\* The handler's answer recorded and the handler idle again.
Responded(r) ==
    /\ ingress' = [ingress EXCEPT !.pc = "idle", !.resp = r.resp, !.sessions = r.sessions,
                                  !.score = r.score, !.recommendation = r.recommendation,
                                  !.heuristic = r.heuristic]
    /\ sessionPolicies' = r.store
    /\ limits' = r.limits

\* handle, from the request to its response or to the await of classifyWithML.
Receive(req) ==
    /\ ingress.pc = "idle"
    /\ ingress.sessions < Len(SessionNames)
    /\ LET first == FirstTests(req, config)
       IN IF first.status # "continue"
          THEN /\ ingress' = [ingress EXCEPT !.req = req, !.resp = first,
                                             !.preIds = StoredIds(sessionPolicies),
                                             !.score = 0, !.recommendation = "none",
                                             !.heuristic = 0]
               /\ UNCHANGED <<sessionPolicies, limits>>
          ELSE IF CallsML(config)
          THEN /\ ingress' = [ingress EXCEPT !.pc = "awaitML", !.req = req, !.resp = NoResponse,
                                             !.preIds = StoredIds(sessionPolicies),
                                             !.score = 0, !.recommendation = "none",
                                             !.heuristic = 0]
               /\ UNCHANGED <<sessionPolicies, limits>>
          ELSE /\ Responded(RestOfHandle(req, NoML, sessionPolicies, limits,
                                         ingress.sessions, config, now))
               /\ ingress'.req = req
               /\ ingress'.preIds = StoredIds(sessionPolicies)
    /\ UNCHANGED <<now, wfVars, config, attempts, nextId, passed, fwRet, risk, san, resolving>>

\* fetch settles: classifyWithML returns a result or null (a network error, a
\* non-success status, a schema mismatch), and handle runs to its response. The
\* call sets no timeout: while the endpoint does not answer the handler waits.
MLSettles(ml) ==
    /\ ingress.pc = "awaitML"
    /\ ingress.req.endpoint = "answers"
    /\ Responded(RestOfHandle(ingress.req, ml, sessionPolicies, limits,
                              ingress.sessions, config, now))
    /\ UNCHANGED <<now, wfVars, config, attempts, nextId, passed, fwRet, risk, san, resolving>>

\* ------------------------------------------------------------------ sanitizer
\* Text is a sequence of characters. The bodies sanitized are plain text over a
\* letter, the space, the line feed, the quote marker and U+200B ZERO WIDTH SPACE.
Space == " "
LineFeed == "\n"
QuoteMark == ">"
ZeroWidthSpace == "U+200B"
BodyAlphabet == {"a", Space, LineFeed, QuoteMark, ZeroWidthSpace}

\* '\n[Content truncated for safety]'
TruncationMarker ==
    <<LineFeed, "[", "C", "o", "n", "t", "e", "n", "t", Space,
      "t", "r", "u", "n", "c", "a", "t", "e", "d", Space, "f", "o", "r", Space,
      "s", "a", "f", "e", "t", "y", "]">>

\* Characters String.prototype.trim and \s take for white space, of those that occur.
IsWhiteSpace(c) == c \in {Space, LineFeed, "\t"}

\* The length of the run of characters of the set that starts at position i.
RECURSIVE RunLength(_, _, _)
RunLength(text, i, set) ==
    IF i > Len(text) \/ text[i] \notin set THEN 0 ELSE 1 + RunLength(text, i + 1, set)

\* text.replace(/[set]{min,}/g, replacement), from position i on.
RECURSIVE ReplaceRuns(_, _, _, _, _)
ReplaceRuns(text, i, set, min, replacement) ==
    IF i > Len(text) THEN <<>>
    ELSE LET n == RunLength(text, i, set)
         IN IF n = 0 THEN <<text[i]>> \o ReplaceRuns(text, i + 1, set, min, replacement)
            ELSE (IF n >= min THEN replacement ELSE SubSeq(text, i, i + n - 1))
                 \o ReplaceRuns(text, i + n, set, min, replacement)

\* text.replace(ZERO_WIDTH_CHARS, '')
RemoveZeroWidth(text) == SelectSeq(text, LAMBDA c : c # ZeroWidthSpace)

\* text.trim()
Trim(text) ==
    LET kept == {i \in 1..Len(text) : ~IsWhiteSpace(text[i])}
    IN IF kept = {} THEN <<>>
       ELSE SubSeq(text, CHOOSE i \in kept : \A j \in kept : i <= j,
                         CHOOSE i \in kept : \A j \in kept : i >= j)

\* text.split('\n'), from position i on: the lines, at least one.
RECURSIVE Split(_, _)
Split(text, i) ==
    LET n == RunLength(text, i, {c \in {text[j] : j \in 1..Len(text)} : c # LineFeed})
    IN IF i + n > Len(text) THEN <<SubSeq(text, i, Len(text))>>
       ELSE <<SubSeq(text, i, i + n - 1)>> \o Split(text, i + n + 1)

\* lines.join('\n')
RECURSIVE Join(_)
Join(lines) ==
    IF lines = <<>> THEN <<>>
    ELSE IF Len(lines) = 1 THEN lines[1]
    ELSE lines[1] \o <<LineFeed>> \o Join(Tail(lines))

\* line.match(/^(>+)\s*/)
IsQuotedLine(line) == line # <<>> /\ line[1] = QuoteMark

\* isQuoteAttribution: of its patterns, /^_{3,}\s*$/ on the trimmed line; the others
\* need 'On', 'Original Message' or 'From:'.
isQuoteAttribution(line) ==
    LET t == Trim(line)
    IN Len(t) >= 3 /\ \A i \in 1..Len(t) : t[i] = "_"

\* extractQuotedBlocks(text).mainContent: the lines that are neither quoted nor an
\* attribution, joined again.
MainContent(text) ==
    Join(SelectSeq(Split(text, 1), LAMBDA l : ~IsQuotedLine(l) /\ ~isQuoteAttribution(l)))

\* text.lastIndexOf(' '), counted from 0, -1 when there is none.
LastIndexOfSpace(text) ==
    LET at == {i \in 1..Len(text) : text[i] = Space}
    IN IF at = {} THEN -1 ELSE (CHOOSE i \in at : \A j \in at : i >= j) - 1

\* The truncation of sanitizeEmailContent: the first maxLength characters, cut back
\* to the last space when that lies beyond 0.8 * maxLength, then the marker.
Truncated(text, maxLength) ==
    IF Len(text) <= maxLength THEN text
    ELSE LET head == SubSeq(text, 1, maxLength)
             lastSpace == LastIndexOfSpace(head)
         IN (IF 10 * lastSpace > 8 * maxLength THEN SubSeq(head, 1, lastSpace) ELSE head)
            \o TruncationMarker

\* The whitespace normalisation of sanitizeEmailContent.
NormalizedWhitespace(text) ==
    Trim(ReplaceRuns(ReplaceRuns(text, 1, {Space, "\t"}, 3, <<Space, Space>>),
                     1, {LineFeed}, 4, <<LineFeed, LineFeed, LineFeed>>))

\* sanitizeEmailContent(undefined, plainContent, maxLength).bodyText. On these
\* bodies normalizeEncoding, HIDDEN_UNICODE and sanitizeBiDi change nothing.
sanitizeEmailContent(plainContent, maxLength) ==
    Truncated(MainContent(NormalizedWhitespace(RemoveZeroWidth(plainContent))), maxLength)

Bodies == UNION {[1..n -> BodyAlphabet] : n \in 0..MaxText}
Budgets == {ShortBudget, LongBudget}

NoSanitize == [stage |-> "none", plain |-> <<>>, maxLength |-> 0, first |-> <<>>, second |-> <<>>]

\* sanitizeEmailContent called on the body.
Sanitize ==
    /\ san.stage = "input"
    /\ san' = [san EXCEPT !.stage = "once",
                          !.first = sanitizeEmailContent(san.plain, san.maxLength)]
    /\ UNCHANGED <<now, wfVars, fwVars, risk, ingress, limits, resolving>>

\* sanitizeEmailContent called on the body text it returned, with the same budget.
SanitizeAgain ==
    /\ san.stage = "once"
    /\ san' = [san EXCEPT !.stage = "twice",
                          !.second = sanitizeEmailContent(san.first, san.maxLength)]
    /\ UNCHANGED <<now, wfVars, fwVars, risk, ingress, limits, resolving>>

vars == <<now, activeWorkflows, wfRet, config, sessionPolicies, attempts, nextId, passed, fwRet,
          risk, ingress, limits, san, resolving>>

\* The state after construction, whatever the configuration.
Built ==
    /\ now = 0
    /\ activeWorkflows = <<>>
    /\ wfRet = WfCall("none", 0, 0, FALSE, NoWorkflow, FALSE, FALSE, FALSE, {})
    /\ sessionPolicies = <<>>
    /\ attempts = [s \in SessionUniverse |-> NoEntry]
    /\ nextId = 0
    /\ passed = [s \in SessionUniverse |-> <<>>]
    /\ fwRet = FwNone
    /\ risk = NoRisk
    /\ ingress = Idle
    /\ limits = [d \in SenderDomains |-> NoEntry]
    /\ resolving = NotResolving

Constructed ==
    /\ Built
    /\ san = NoSanitize

Init ==
    /\ config \in Configs
    /\ Constructed

WfNext ==
    \/ \E plan \in Plans : activeWorkflows = <<>> /\ createApprovalWorkflow(plan)
    \/ \E w \in WorkflowIds : startWorkflow(w)
    \/ \E w \in WorkflowIds, stepId \in StepIds, approved \in BOOLEAN :
          LobsterResolveApproval(w, stepId, approved)
    \/ \E w \in WorkflowIds : cancelWorkflow(w)
    \/ checkExpiredWorkflows
    \/ WfTick

SpecWorkflow == Init /\ [][WfNext]_vars

\* The tool firewall driven for one session; callers also name a session that has
\* no policy. The clock stands still and a window sees few resolutions.
FwSessions == {"s1", "s2"}
TheAction == [type |-> send_email, requiresApproval |-> TRUE]

FwNext ==
    \/ \E p \in Provenances, r \in RiskScores : initializeSession("s1", p, r)
    \/ \E s \in FwSessions, tool \in RequestedTools :
          HistoryLen(s) < MaxHistory /\ checkToolAccess(s, tool)
    \/ \E s \in FwSessions, actions \in ActionLists : createSideEffectPlan(s, actions)
    \/ \E s \in FwSessions, a \in ApprovalIds, approved \in BOOLEAN, by \in Resolvers :
          /\ attempts[s].count < MaxResolves
          /\ FirewallResolveApproval(s, a, approved, by)

SpecFirewall == Init /\ [][FwNext]_vars

\* Approvals of one Gmail-origin session created and resolved until the limiter
\* refuses, over a short clock.
ApprovalsNext ==
    \/ \E r \in RiskScores : initializeSession("s1", "gmail", r)
    \/ \E s \in FwSessions : createSideEffectPlan(s, <<TheAction>>)
    \/ \E s \in FwSessions, a \in ApprovalIds \cup {MaxApprovals + 1}, approved \in BOOLEAN :
          FirewallResolveApproval(s, a, approved, "alice")
    \/ FwTick

SpecApprovals == Init /\ [][ApprovalsNext]_vars

\* The rate limiter alone: resolutions of one session (its approval id unknown,
\* which still spends an attempt) over a clock that outlasts two windows.
RateLimitNext ==
    \/ sessionPolicies = <<>> /\ initializeSession("s1", "gmail", [defined |-> TRUE, score |-> 85])
    \/ \E s \in FwSessions : FirewallResolveApproval(s, 1, TRUE, "alice")
    \/ RlTick

SpecRateLimit == Init /\ [][RateLimitNext]_vars

\* The session store filled to capacity and beyond.
CapacityNext ==
    \/ \E s \in SessionUniverse :
          initializeSession(s, "gmail", [defined |-> TRUE, score |-> 85])
    \/ FwTick

SpecCapacity == Init /\ [][CapacityNext]_vars

\* Two workflows created at different times, started, resolved, cancelled and
\* checked for expiry while the clock passes the timeout of the older one.
ExpiryPlans == {<<TRUE>>, <<TRUE, TRUE>>}

ExpiryNext ==
    \/ \E plan \in ExpiryPlans : Len(activeWorkflows) < 2 /\ createApprovalWorkflow(plan)
    \/ \E w \in WorkflowIds : Known(w) /\ startWorkflow(w)
    \/ \E w \in WorkflowIds, approved \in BOOLEAN :
          Known(w) /\ LobsterResolveApproval(w, 1, approved)
    \/ \E w \in WorkflowIds : Known(w) /\ cancelWorkflow(w)
    \/ checkExpiredWorkflows
    \/ WfTick

SpecExpiry == Init /\ [][ExpiryNext]_vars

\* One workflow whose resolveApproval call is suspended at its storage write while
\* other calls on the same workflow run: cancelWorkflow, startWorkflow,
\* checkExpiredWorkflows and another resolveApproval.
InterleavedNext ==
    \/ \E plan \in ExpiryPlans : activeWorkflows = <<>> /\ createApprovalWorkflow(plan)
    \/ Known(1) /\ startWorkflow(1)
    \/ \E stepId \in 1..2, approved \in BOOLEAN :
          Known(1) /\ resolveApprovalSuspends(1, stepId, approved)
    \/ resolveApprovalReturns
    \/ \E stepId \in 1..2, approved \in BOOLEAN :
          resolving.stage = "suspended" /\ LobsterResolveApproval(1, stepId, approved)
    \/ Known(1) /\ cancelWorkflow(1)
    \/ checkExpiredWorkflows
    \/ WfTick

SpecInterleaved == Init /\ [][InterleavedNext]_vars

\* Workflows with and without steps, started and left alone or operated, while the
\* clock advances and the 'mailguard-workflow-expiry' background service calls
\* checkExpiredWorkflows every minute. The clock of the model stops at
\* MaxWfTicks * WfTickMs, so workflows are created while it can still pass their
\* timeout. The clock and the background service are the fair steps; no caller is
\* obliged to resolve, cancel or start anything.
LivePlans == {<<>>, <<TRUE>>}

LiveNext ==
    \/ \E plan \in LivePlans :
          /\ Len(activeWorkflows) < 2
          /\ now + timeout * 1000 + WfTickMs <= MaxWfTicks * WfTickMs
          /\ createApprovalWorkflow(plan)
    \/ \E w \in WorkflowIds : Known(w) /\ startWorkflow(w)
    \/ \E w \in WorkflowIds, approved \in BOOLEAN :
          Known(w) /\ LobsterResolveApproval(w, 1, approved)
    \/ \E w \in WorkflowIds : Known(w) /\ cancelWorkflow(w)
    \/ checkExpiredWorkflows
    \/ WfTick

LiveInit ==
    /\ config = DefaultConfig
    /\ Constructed

SpecWorkflowLive ==
    /\ LiveInit
    /\ [][LiveNext]_vars
    /\ WF_vars(WfTick)
    /\ WF_vars(checkExpiredWorkflows)

\* One session, initialized again and again, asked about spellings of the same tools.
NormalizeTools ==
    {exec, <<"E", "x", "e", "c">>, <<"E", "X", "E", "C">>, <<"e", "x", "-", "e", "c">>,
     <<"e", "x", ".", "e", "c">>, <<"e", "x", "_", "e", "c">>, send_email,
     <<"S", "e", "n", "d", "_", "E", "m", "a", "i", "l">>,
     <<"s", "e", "n", "d", "-", "e", "m", "a", "i", "l">>}

NormalizeNext ==
    \/ \E p \in Provenances : initializeSession("s1", p, [defined |-> TRUE, score |-> 85])
    \/ \E tool \in NormalizeTools : HistoryLen("s1") < MaxChecks /\ checkToolAccess("s1", tool)

SpecNormalize == Init /\ [][NormalizeNext]_vars

\* One session initialized once, its tools checked before and after an approval is
\* planned and resolved, over a clock that orders the calls.
SoftDenialTools == {send_email, delete_email, apply_label}

SoftDenialNext ==
    \/ sessionPolicies = <<>> /\ initializeSession("s1", "gmail", [defined |-> TRUE, score |-> 85])
    \/ \E tool \in SoftDenialTools : HistoryLen("s1") < MaxChecks /\ checkToolAccess("s1", tool)
    \/ \E type \in {send_email, delete_email} :
          createSideEffectPlan("s1", <<[type |-> type, requiresApproval |-> TRUE]>>)
    \/ \E a \in ApprovalIds, approved \in BOOLEAN :
          /\ attempts["s1"].count < MaxResolves
          /\ FirewallResolveApproval("s1", a, approved, "alice")
    \/ RlTick

SpecSoftDenial == Init /\ [][SoftDenialNext]_vars

\* The lifetime of session s1: initialized for a Gmail message first, then checked
\* while it is initialized again, other sessions fill the store, the clock passes
\* the maximum age and expired sessions are cleaned up.
LifetimeTools == {exec, delete_email, summarize}

LifetimeNext ==
    \/ /\ fwRet.op = "none"
       /\ initializeSession("s1", "gmail", [defined |-> TRUE, score |-> 85])
    \/ /\ fwRet.op # "none"
       /\ \E s \in SessionUniverse \ {""}, p \in {"gmail", "api"} :
             initializeSession(s, p, [defined |-> TRUE, score |-> 85])
    \/ /\ fwRet.op # "none"
       /\ \E tool \in LifetimeTools :
             HistoryLen("s1") < MaxHistory /\ checkToolAccess("s1", tool)
    \/ fwRet.op # "none" /\ cleanupExpiredSessions
    \/ fwRet.op # "none" /\ LifetimeTick

LifetimeInit ==
    /\ config = DefaultConfig
    /\ Constructed

SpecLifetime == LifetimeInit /\ [][LifetimeNext]_vars

\* Two sessions and two workflows side by side, each operated on its own; a
\* workflow is started once, while it is pending.
IndependenceNext ==
    \/ \E s \in FwSessions :
          /\ PolicyIndex(sessionPolicies, s) = 0
          /\ initializeSession(s, "gmail", [defined |-> TRUE, score |-> 85])
    \/ \E s \in FwSessions :
          HistoryLen(s) < MaxHistory /\ checkToolAccess(s, send_email)
    \/ \E s \in FwSessions : createSideEffectPlan(s, <<TheAction>>)
    \/ \E s \in FwSessions, a \in ApprovalIds, approved \in BOOLEAN :
          /\ attempts[s].count < MaxResolvesEach
          /\ FirewallResolveApproval(s, a, approved, "alice")
    \/ Len(activeWorkflows) < 2 /\ createApprovalWorkflow(<<TRUE>>)
    \/ \E w \in WorkflowIds :
          Known(w) /\ activeWorkflows[w].status = "pending" /\ startWorkflow(w)
    \/ \E w \in WorkflowIds, approved \in BOOLEAN :
          Known(w) /\ LobsterResolveApproval(w, 1, approved)
    \/ \E w \in WorkflowIds : Known(w) /\ cancelWorkflow(w)

IndependenceInit ==
    /\ config = DefaultConfig
    /\ Constructed

SpecIndependence == IndependenceInit /\ [][IndependenceNext]_vars

\* The ingress handler serving one request after the other, with and without the
\* ML classifier and the quarantine, two messages per sender and hour.
IngressConfigs ==
    {DefaultConfig @@ IngressSettings(ml, q, 2) : ml \in BOOLEAN, q \in BOOLEAN}

IngressInit ==
    /\ config \in IngressConfigs
    /\ Constructed

IngressNext ==
    \/ \E req \in Requests : Receive(req)
    \/ \E ml \in MLResults : MLSettles(ml)

SpecIngress == IngressInit /\ [][IngressNext]_vars

\* fetch settles whenever the endpoint answers.
SpecIngressLive ==
    IngressInit /\ [][IngressNext]_vars /\ WF_vars(\E ml \in MLResults : MLSettles(ml))

\* The sanitizer applied to every body of a bounded family, and to its own result.
SanitizeInit ==
    /\ config = DefaultConfig
    /\ Built
    /\ san \in [stage : {"input"}, plain : Bodies, maxLength : Budgets,
                first : {<<>>}, second : {<<>>}]

SanitizeNext ==
    \/ Sanitize
    \/ SanitizeAgain

SpecSanitize == SanitizeInit /\ [][SanitizeNext]_vars

\* The risk heuristics applied to every message of a bounded family.
RiskInit ==
    /\ config = RiskConfig
    /\ Constructed

RiskNext ==
    \/ \E in \in RiskInputs : AssessMessage(in)
    \/ \E ml \in MLResults : CombineWithML(ml)

SpecRisk == RiskInit /\ [][RiskNext]_vars

\* ------------------------------------------------------------------ workflow engine: properties
TerminalStatus == {"completed", "failed", "cancelled"}
InProgressSteps(wf) == {i \in 1..Len(wf.steps) : wf.steps[i].status = "in_progress"}
StepStatuses(wf) == [i \in 1..Len(wf.steps) |-> wf.steps[i].status]

\* C2: no workflow ever has more than one step in status in_progress, after any
\* sequence of create, start, resolve, cancel and expiry calls.
C2_AtMostOneInProgress ==
    \A w \in 1..Len(activeWorkflows) : Cardinality(InProgressSteps(activeWorkflows[w])) <= 1

\* C3: once a workflow is completed, failed or cancelled, no later call changes its
\* status or the status of any of its steps.
C3_TerminalIsFinal ==
    [][\A w \in 1..Len(activeWorkflows) :
          activeWorkflows[w].status \in TerminalStatus
          => /\ activeWorkflows'[w].status = activeWorkflows[w].status
             /\ StepStatuses(activeWorkflows'[w]) = StepStatuses(activeWorkflows[w])]_vars

\* The last call was resolveApproval and it found its workflow and step.
Resolved == wfRet.op = "resolveApproval" /\ ~wfRet.threw
\* Position of the step the last resolveApproval addressed, in the workflow before it.
ResolvedAt == CHOOSE k \in 1..Len(wfRet.pre.steps) :
                 /\ wfRet.pre.steps[k].id = wfRet.step
                 /\ \A j \in 1..(k - 1) : wfRet.pre.steps[j].id # wfRet.step

\* C4: a denial fails the addressed step, skips every other step that was pending
\* or in_progress, leaves the rest as they were, fails the workflow, leaves no
\* step in_progress, and returns workflowComplete = TRUE, allApproved = FALSE.
C4_DenialShortCircuits ==
    (Resolved /\ ~wfRet.approved)
    => LET pre == wfRet.pre
           post == activeWorkflows[wfRet.wf]
           k == ResolvedAt
       IN /\ post.status = "failed"
          /\ post.steps[k].status = "failed"
          /\ \A i \in 1..Len(pre.steps) :
                i # k => post.steps[i].status =
                           IF IsOpenStep(pre.steps[i]) THEN "skipped" ELSE pre.steps[i].status
          /\ InProgressSteps(post) = {}
          /\ wfRet.workflowComplete
          /\ ~wfRet.allApproved

\* C4's case: a denial on a started workflow of several steps, one of the others still open.
C4_Witness ==
    /\ Resolved /\ ~wfRet.approved
    /\ wfRet.pre.status = "in_progress"
    /\ Len(wfRet.pre.steps) >= 2
    /\ \E i \in 1..Len(wfRet.pre.steps) : i # ResolvedAt /\ wfRet.pre.steps[i].status = "pending"
    /\ \E i \in 1..Len(wfRet.pre.steps) : i # ResolvedAt /\ wfRet.pre.steps[i].status = "in_progress"

\* A started workflow whose steps were approved in order up to step k - 1:
\* the steps before k completed, step k in_progress, the steps after k pending.
ApprovedInOrderUpTo(wf, k) ==
    /\ wf.status = "in_progress"
    /\ k \in 1..Len(wf.steps)
    /\ \A i \in 1..Len(wf.steps) :
          wf.steps[i].status = IF i < k THEN "completed"
                               ELSE IF i = k THEN "in_progress" ELSE "pending"

\* C5: approving the steps of a started workflow one at a time in step order,
\* every approval but the last returns workflowComplete = FALSE, keeps the workflow
\* in_progress and puts exactly the next step in_progress; the last returns
\* workflowComplete = TRUE, allApproved = TRUE and leaves workflow and steps completed.
C5_SequentialApproval ==
    (Resolved /\ wfRet.approved /\ ApprovedInOrderUpTo(wfRet.pre, ResolvedAt))
    => LET post == activeWorkflows[wfRet.wf]
           k == ResolvedAt
           n == Len(post.steps)
       IN IF k < n
          THEN /\ ~wfRet.workflowComplete
               /\ ~wfRet.allApproved
               /\ ApprovedInOrderUpTo(post, k + 1)
          ELSE /\ wfRet.workflowComplete
               /\ wfRet.allApproved
               /\ post.status = "completed"
               /\ \A i \in 1..n : post.steps[i].status = "completed"

\* C5's case: the last of at least three in-order approvals completes the workflow.
C5_Witness ==
    /\ Resolved /\ wfRet.approved
    /\ Len(wfRet.pre.steps) >= 3
    /\ ApprovedInOrderUpTo(wfRet.pre, Len(wfRet.pre.steps))
    /\ ResolvedAt = Len(wfRet.pre.steps)
    /\ wfRet.allApproved

\* ------------------------------------------------------------------ tool firewall: properties
\* The last call was checkToolAccess for a session that has a policy.
Checked == fwRet.op = "checkToolAccess" /\ PolicyIndex(sessionPolicies, fwRet.session) # 0
\* The policy of the session the last call named.
LastPolicy == sessionPolicies[PolicyIndex(sessionPolicies, fwRet.session)]
\* The normalized name of the tool the last checkToolAccess was asked about.
LastTool == normalizeToolName(fwRet.tool)
HardDenied(policy) == HARD_DENIED_TOOLS \cup policy.deniedTools
ApprovalRequired(policy) == APPROVAL_REQUIRED_TOOLS \cup policy.approvalRequiredActions

\* C1: for a session with a policy, a tool whose normalized name is hard-denied is
\* refused with denialType hard and requiresApproval FALSE, whatever the session's
\* provenance, risk score and approvals, and also when the name is a safe tool or a
\* configured approval-required action.
C1_HardDeniedNeverAllowed ==
    (Checked /\ LastTool \in HardDenied(LastPolicy))
    => /\ ~fwRet.decision.allowed
       /\ fwRet.decision.denialType = "hard"
       /\ ~fwRet.decision.requiresApproval

\* C1's case: delete_email, hard-denied and a configured approval-required action,
\* checked on a session that holds an approved approval for it.
C1_Witness ==
    /\ Checked
    /\ LastTool = delete_email
    /\ delete_email \in LastPolicy.approvalRequiredActions
    /\ \E a \in 1..Len(LastPolicy.pendingApprovals) :
          /\ LastPolicy.pendingApprovals[a].action = delete_email
          /\ LastPolicy.pendingApprovals[a].status = "approved"
    /\ fwRet.decision.denialType = "hard"

\* C6: a tool in none of the hard-denied, safe and approval-required sets is refused
\* with requiresApproval TRUE on a session initialized with gmail provenance, and
\* allowed on a session initialized with any other provenance.
C6_UnknownToolFailSecure ==
    (Checked /\ LastTool \notin HardDenied(LastPolicy) \cup SAFE_TOOLS \cup ApprovalRequired(LastPolicy))
    => IF LastPolicy.source = "gmail"
       THEN ~fwRet.decision.allowed /\ fwRet.decision.requiresApproval
       ELSE fwRet.decision.allowed

\* C6's case: an unknown tool refused on a Gmail-origin session.
C6_Witness ==
    /\ Checked
    /\ LastTool \notin HardDenied(LastPolicy) \cup SAFE_TOOLS \cup ApprovalRequired(LastPolicy)
    /\ LastPolicy.source = "gmail"
    /\ ~fwRet.decision.allowed

\* The approval the last resolveApproval found, as the store holds it now.
LastApproval ==
    LET HasId(x) == x.id = fwRet.approval
    IN LastPolicy.pendingApprovals[FindFirst(LastPolicy.pendingApprovals, HasId)]

\* C7: resolveApproval on an approval already marked approved or denied changes
\* neither its status nor its resolver nor its resolution time.
C7_ResolvedIsFinal ==
    (fwRet.op = "resolveApproval" /\ fwRet.preApproval.status \in {"approved", "denied"})
    => /\ LastApproval.status = fwRet.preApproval.status
       /\ LastApproval.resolvedBy = fwRet.preApproval.resolvedBy
       /\ LastApproval.resolvedAt = fwRet.preApproval.resolvedAt

\* Calls of the session that got past the limiter at a time after `since`.
PassedAfter(s, since) == Cardinality({i \in 1..Len(passed[s]) : passed[s][i] > since})
\* Calls of the session that got past the limiter in its current window.
PassedInWindow(s) ==
    Cardinality({i \in 1..Len(passed[s]) : passed[s][i] >= attempts[s].windowStart})

\* C8: in every rolling 60-second interval at most 10 resolveApproval calls of a
\* session get past the rate limiter (stated for the interval that ends now: an
\* interval with more than 10 passes has them all in the 60 s before its last pass).
C8_RollingWindow ==
    \A s \in SessionUniverse : PassedAfter(s, now - windowMs) <= maxAttempts

\* C8, amended: at most 10 calls of a session get past the limiter in one of its
\* windows (from the call that opened the window to 60000 ms after it), a call the
\* limiter refuses returns FALSE with the window full, and a rolling 60-second
\* interval sees at most 20 calls get past.
C8_FixedWindow ==
    /\ \A s \in SessionUniverse :
          /\ attempts[s] # NoEntry => PassedInWindow(s) <= maxAttempts
          /\ PassedAfter(s, now - windowMs) <= 2 * maxAttempts
    /\ (fwRet.op = "resolveApproval" /\ fwRet.limited)
       => /\ ~fwRet.result
          /\ PassedInWindow(fwRet.session) = maxAttempts

\* C8's case: the limiter refuses a call of a session whose window is full.
C8_Witness ==
    /\ fwRet.op = "resolveApproval"
    /\ fwRet.limited
    /\ attempts[fwRet.session].count = maxAttempts

\* C9: a resolveApproval that returns FALSE leaves the session store, and with it
\* every approval of every session, as it was.
C9_FalseChangesNothing ==
    (fwRet.op = "resolveApproval" /\ ~fwRet.result) => ~fwRet.storeChanged

\* C9's case: the limiter refuses a call that names a pending approval of the session.
C9_Witness ==
    /\ fwRet.op = "resolveApproval"
    /\ ~fwRet.result
    /\ fwRet.limited
    /\ PolicyIndex(sessionPolicies, fwRet.session) # 0
    /\ \E a \in 1..Len(LastPolicy.pendingApprovals) :
          /\ LastPolicy.pendingApprovals[a].id = fwRet.approval
          /\ LastPolicy.pendingApprovals[a].status = "pending"

\* C10: initializeSession on a store that holds its capacity removes exactly one
\* session, one whose creation time no session of the store is below.
C10_EvictsOldest ==
    (fwRet.op = "initializeSession" /\ fwRet.preSize = maxSessions)
    => /\ Len(fwRet.evicted) = 1
       /\ \A c \in fwRet.preCreated : fwRet.evicted[1].createdAt <= c

\* C11: after any sequence of initializeSession calls the store holds at most its
\* capacity of policies, and every call leaves the session it named with a policy.
C11_StoreWithinCapacity ==
    /\ Len(sessionPolicies) <= maxSessions
    /\ fwRet.op = "initializeSession" => PolicyIndex(sessionPolicies, fwRet.session) # 0

\* The last call was a checkToolAccess that came after an earlier soft denial of the
\* same tool on the session and after an approval for that tool, created since the
\* soft denial, was resolved as approved.
CheckedAfterApproval ==
    /\ Checked
    /\ LET h == LastPolicy.toolCallHistory
           ap == LastPolicy.pendingApprovals
       IN \E i \in 1..(Len(h) - 1), a \in 1..Len(ap) :
             /\ h[i].tool = LastTool
             /\ h[i].decision = "pending_approval"
             /\ ap[a].action = LastTool
             /\ ap[a].status = "approved"
             /\ h[i].timestamp < ap[a].createdAt
             /\ ap[a].resolvedAt < h[Len(h)].timestamp

C13_DeleteEmailSoftDenied ==
    (Checked /\ LastTool = delete_email /\ config = DefaultConfig /\ LastPolicy.source = "gmail")
    => /\ ~fwRet.decision.allowed
       /\ fwRet.decision.requiresApproval
       /\ fwRet.decision.denialType = "soft"

\* A name lowercased with every character outside a-z, 0-9 and underscore removed.
Stripped(tool) == SelectSeq([i \in 1..Len(tool) |-> toLowerCase(tool[i])], IsToolNameChar)

\* Two names of one length that differ only in letter case or in which characters
\* outside a-z, 0-9 and underscore stand at a position.
SameButCaseAndPunctuation(a, b) ==
    /\ Len(a) = Len(b)
    /\ \A i \in 1..Len(a) :
          \/ toLowerCase(a[i]) = toLowerCase(b[i])
          \/ /\ ~IsToolNameChar(toLowerCase(a[i])) \/ a[i] = "_"
             /\ ~IsToolNameChar(toLowerCase(b[i])) \/ b[i] = "_"

\* A checkToolAccess step on the session of the checkToolAccess before it.
CheckedAgain ==
    /\ Checked
    /\ fwRet'.op = "checkToolAccess"
    /\ fwRet'.session = fwRet.session
    /\ sessionPolicies' # sessionPolicies

\* C14: two requested names that are equal once lowercased and stripped of every
\* character outside a-z, 0-9 and underscore receive the same decision on a session.
C14_StrippedNamesSameDecision ==
    [][(CheckedAgain /\ Stripped(fwRet'.tool) = Stripped(fwRet.tool))
       => fwRet'.decision = fwRet.decision]_vars

\* C14, amended: the characters outside a-z, 0-9 and underscore are replaced by an
\* underscore, not removed: two names that differ only in letter case or in which
\* such characters stand at the same positions receive the same decision on a
\* session, and a name with such a character is not classified as the name without it.
C14_ReplacedNamesSameDecision ==
    [][/\ (CheckedAgain /\ SameButCaseAndPunctuation(fwRet'.tool, fwRet.tool))
          => fwRet'.decision = fwRet.decision
       /\ (CheckedAgain /\ fwRet'.tool = <<"e", "x", "-", "e", "c">>)
          => fwRet'.decision.denialType # "hard"]_vars

\* C14's case: exec spelled in capitals right after exec, both hard-denied.
C14_Witness ==
    /\ Checked
    /\ fwRet.tool = <<"E", "X", "E", "C">>
    /\ Len(LastPolicy.toolCallHistory) = 2
    /\ LastPolicy.toolCallHistory[1].tool = exec
    /\ LastPolicy.toolCallHistory[1].decision = "denied"
    /\ fwRet.decision.denialType = "hard"

\* A step of checkExpiredWorkflows.
ExpiryStep ==
    /\ wfRet'.op = "checkExpiredWorkflows"
    /\ now' = now
    /\ <<wfRet, activeWorkflows>>' # <<wfRet, activeWorkflows>>

\* C15: checkExpiredWorkflows fails exactly the in_progress workflows older than the
\* timeout, with their pending and in_progress steps failed and their ids reported;
\* every other workflow keeps its status and step statuses and is not reported.
C15_ExpiryFrame ==
    [][ExpiryStep
       => /\ Len(activeWorkflows') = Len(activeWorkflows)
          /\ \A w \in 1..Len(activeWorkflows) :
                LET pre == activeWorkflows[w]
                    post == activeWorkflows'[w]
                IN IF pre.status = "in_progress" /\ now - pre.createdAt > timeout * 1000
                   THEN /\ post.status = "failed"
                        /\ \A i \in 1..Len(pre.steps) :
                              post.steps[i].status =
                                 IF pre.steps[i].status \in {"pending", "in_progress"}
                                 THEN "failed" ELSE pre.steps[i].status
                        /\ w \in wfRet'.expired
                   ELSE /\ post.status = pre.status
                        /\ StepStatuses(post) = StepStatuses(pre)
                        /\ w \notin wfRet'.expired]_vars

\* C15's case: the check failed the older workflow (one step completed, one failed
\* by the expiry) and left the younger in_progress workflow alone.
C15_Witness ==
    /\ wfRet.op = "checkExpiredWorkflows"
    /\ wfRet.expired = {1}
    /\ Len(activeWorkflows) = 2
    /\ activeWorkflows[1].status = "failed"
    /\ StepStatuses(activeWorkflows[1]) = <<"completed", "failed">>
    /\ activeWorkflows[2].status = "in_progress"
    /\ InProgressSteps(activeWorkflows[2]) # {}

\* The workflow or the step the last resolveApproval named does not exist.
UnknownTarget(ret) ==
    \/ ret.pre = NoWorkflow
    \/ \A i \in 1..Len(ret.pre.steps) : ret.pre.steps[i].id # ret.step

\* A step of the workflow engine's resolveApproval.
ResolveStep ==
    /\ wfRet'.op = "resolveApproval"
    /\ now' = now
    /\ <<wfRet, activeWorkflows>>' # <<wfRet, activeWorkflows>>

\* C16: resolveApproval for an unknown workflow id or step id raises no exception
\* (it returns a failure result) and changes no workflow or step.
C16_UnknownIsFailureResult ==
    [][(ResolveStep /\ UnknownTarget(wfRet'))
       => /\ ~wfRet'.threw
          /\ activeWorkflows' = activeWorkflows]_vars

\* C16, amended: resolveApproval for an unknown workflow id or step id throws, so
\* it returns no result, and changes no workflow or step.
C16_UnknownThrows ==
    [][(ResolveStep /\ UnknownTarget(wfRet'))
       => /\ wfRet'.threw
          /\ ~wfRet'.workflowComplete
          /\ ~wfRet'.allApproved
          /\ activeWorkflows' = activeWorkflows]_vars

\* C16's case: a step id the started workflow does not have.
C16_Witness ==
    /\ wfRet.op = "resolveApproval"
    /\ wfRet.threw
    /\ wfRet.pre.status = "in_progress"
    /\ Len(wfRet.pre.steps) >= 1
    /\ UnknownTarget(wfRet)

\* C19: the score assessRisk returns lies in 0..100 for every combination of
\* pattern matches, suspicious links, SPF/DKIM/DMARC results and list membership,
\* and so does the score combined with an ML score in 0..100 under the default weight.
C19_ScoreWithinRange ==
    /\ risk.op # "none" => risk.score \in 0..100
    /\ risk.op = "combineScores" => risk.combined \in 0..100

\* C19's case: a message whose weights add up to far more than 100, from a
\* blocklisted sender, combined with the highest ML score.
C19_Witness ==
    /\ risk.op = "combineScores"
    /\ PatternWeight(risk.in.occ, 1) > 100
    /\ risk.in.senderDomain = "blocked.test"
    /\ risk.ml.present /\ risk.ml.tenths = 1000
    /\ risk.score = 100
    /\ risk.combined = 100

\* ------------------------------------------------------------------ C17
\* The handler has answered its last request.
Answered == ingress.pc = "idle" /\ ingress.resp # NoResponse

\* The sessions the last request added to the tool firewall's store.
NewSessions == StoredIds(sessionPolicies) \ ingress.preIds

\* C17: a request answered 'quarantined' initializes no tool-firewall session, one
\* answered 'processed' initializes exactly one, whose denied set holds the
\* hard-denied tools, and one answered 401, 413, 400, 429 or 500 initializes none.
C17_SessionOnlyWhenProcessed ==
    Answered =>
        /\ ingress.resp.status = "quarantined" => NewSessions = {}
        /\ ingress.resp.status = "processed" =>
               /\ Cardinality(NewSessions) = 1
               /\ \A i \in 1..Len(sessionPolicies) :
                      sessionPolicies[i].sessionId \in NewSessions =>
                          HARD_DENIED_TOOLS \subseteq sessionPolicies[i].deniedTools
        /\ ingress.resp.http \in {401, 413, 400, 429, 500} => NewSessions = {}

\* C17, the part about quarantined and processed messages alone.
C17_QuarantinedHeldOut ==
    Answered =>
        /\ ingress.resp.status = "quarantined" => NewSessions = {}
        /\ ingress.resp.status = "processed" => Cardinality(NewSessions) = 1
        /\ ingress.resp.http \in {401, 413, 400, 429} => NewSessions = {}

\* ------------------------------------------------------------------ C18
\* The handler waits for an ML endpoint that never answers.
AwaitsSilentEndpoint == ingress.pc = "awaitML" /\ ingress.req.endpoint = "silent"

\* C18: the ML classification call is bounded by a timeout: when the classifier is
\* enabled and its endpoint never answers, the handler still eventually responds,
\* and the risk score it used is the heuristic-only score.
C18_MLCallBounded ==
    AwaitsSilentEndpoint ~> (Answered /\ ingress.score = ingress.heuristic)

\* ------------------------------------------------------------------ C20
\* C20: sanitization is idempotent on its own output: sanitizing the body text of
\* a first call again, alone and under the same length budget, returns the same
\* body text, also when the first call truncated and appended the marker.
C20_SanitizeIdempotent ==
    san.stage = "twice" => san.second = san.first

\* ------------------------------------------------------------------ C21
\* The session's tool-call history, empty without a policy.
HistoryOf(store, sessionId) ==
    IF PolicyIndex(store, sessionId) = 0 THEN <<>>
    ELSE store[PolicyIndex(store, sessionId)].toolCallHistory

\* One call of checkToolAccess, createSideEffectPlan or resolveApproval, seen from
\* a session that has a policy before it: the history keeps its records in place,
\* a checkToolAccess on the session adds exactly one record at the end, for the
\* normalized tool with the returned decision, any other call adds none, and the
\* timestamps do not decrease.
HistoryStep(s) ==
    LET h == HistoryOf(sessionPolicies, s)
        g == HistoryOf(sessionPolicies', s)
    IN (/\ PolicyIndex(sessionPolicies, s) # 0
        /\ fwRet'.op \in {"checkToolAccess", "createSideEffectPlan", "resolveApproval"}) =>
          /\ Len(g) >= Len(h)
          /\ SubSeq(g, 1, Len(h)) = h
          /\ IF now' = now /\ fwRet'.op = "checkToolAccess" /\ fwRet'.session = s
             THEN /\ Len(g) = Len(h) + 1
                  /\ g[Len(g)].tool = normalizeToolName(fwRet'.tool)
                  /\ g[Len(g)].decision = fwRet'.decision.decision
                  /\ g[Len(g)].reason = fwRet'.decision.reason
             ELSE g = h
          /\ \A i \in 1..Len(g), j \in 1..Len(g) : i <= j => g[i].timestamp <= g[j].timestamp

\* C21: within a session's lifetime the tool-call history is append-only and in
\* call order: every checkToolAccess on a session with a policy appends exactly one
\* record at the end, no record is modified, removed or reordered by
\* checkToolAccess, createSideEffectPlan or resolveApproval, and the timestamps
\* are non-decreasing.
C21_HistoryAppendOnly == [][\A s \in SessionUniverse : HistoryStep(s)]_vars

\* Two checks of a session at different times, with an approval planned and
\* resolved on it.
C21_Witness ==
    LET h == HistoryOf(sessionPolicies, "s1")
    IN /\ Len(h) = 2
       /\ h[1].timestamp < h[2].timestamp
       /\ h[1].tool # h[2].tool
       /\ \E a \in 1..Len(sessionPolicies[PolicyIndex(sessionPolicies, "s1")].pendingApprovals) :
              sessionPolicies[PolicyIndex(sessionPolicies, "s1")].pendingApprovals[a].status = "approved"

\* ------------------------------------------------------------------ C22
Planned == fwRet.op = "createSideEffectPlan"

\* The approvals the session holds, none without a policy.
ApprovalsOf(store, sessionId) ==
    IF PolicyIndex(store, sessionId) = 0 THEN <<>>
    ELSE store[PolicyIndex(store, sessionId)].pendingApprovals

RequiringApproval(actions) == {i \in 1..Len(actions) : actions[i].requiresApproval}

\* C22: createSideEffectPlan creates exactly one pending approval request per
\* action that requires approval and none for the others, each of them in the
\* returned plan and in the session's pending approvals, so that the plan always
\* has as many approvals as actions that require approval.
C22_OneApprovalPerAction ==
    Planned =>
        /\ Len(fwRet.created) = Cardinality(RequiringApproval(fwRet.actions))
        /\ \A i \in 1..Len(fwRet.created) :
              /\ fwRet.created[i].status = "pending"
              /\ \E a \in 1..Len(ApprovalsOf(sessionPolicies, fwRet.session)) :
                    ApprovalsOf(sessionPolicies, fwRet.session)[a] = fwRet.created[i]

\* C22 for the sessions that have a policy.
C22_OneApprovalPerActionOfKnownSession ==
    (Planned /\ PolicyIndex(sessionPolicies, fwRet.session) # 0) =>
        /\ Len(fwRet.created) = Cardinality(RequiringApproval(fwRet.actions))
        /\ \A i \in 1..Len(fwRet.created) :
              /\ fwRet.created[i].status = "pending"
              /\ \E a \in 1..Len(ApprovalsOf(sessionPolicies, fwRet.session)) :
                    ApprovalsOf(sessionPolicies, fwRet.session)[a] = fwRet.created[i]

\* ------------------------------------------------------------------ C23
\* The session's policy, NoPolicy without one.
NoPolicy == [sessionId |-> "none"]
PolicyOf(store, sessionId) ==
    IF PolicyIndex(store, sessionId) = 0 THEN NoPolicy
    ELSE store[PolicyIndex(store, sessionId)]

\* A checkToolAccess, createSideEffectPlan or resolveApproval call leaves the
\* policy (history and approvals included) and the rate-limit entry of every
\* session it is not addressed to as they were.
FirewallFrame ==
    fwRet'.op \in {"checkToolAccess", "createSideEffectPlan", "resolveApproval"} =>
        \A b \in SessionUniverse \ {fwRet'.session} :
            /\ PolicyOf(sessionPolicies', b) = PolicyOf(sessionPolicies, b)
            /\ attempts'[b] = attempts[b]

\* A startWorkflow, resolveApproval or cancelWorkflow call leaves every workflow
\* it is not addressed to as it was.
WorkflowFrame ==
    wfRet'.op \in {"startWorkflow", "resolveApproval", "cancelWorkflow"} =>
        /\ Len(activeWorkflows') = Len(activeWorkflows)
        /\ \A w \in 1..Len(activeWorkflows) :
              w # wfRet'.wf => activeWorkflows'[w] = activeWorkflows[w]

\* C23: operations addressed to one session or workflow are independent of all
\* others: the firewall's calls on session A never change session B's policy,
\* history, approvals or rate-limit budget, and the engine's calls on workflow W
\* never change another workflow.
C23_Independent == [][FirewallFrame /\ WorkflowFrame]_vars

\* Both sessions have a policy, one holds a resolved approval and the other has
\* spent some of its rate-limit budget; both workflows exist, one is cancelled and
\* the other in progress.
C23_Witness ==
    /\ PolicyIndex(sessionPolicies, "s1") # 0
    /\ PolicyIndex(sessionPolicies, "s2") # 0
    /\ \E a \in FwSessions, b \in FwSessions :
          /\ a # b
          /\ Len(ApprovalsOf(sessionPolicies, b)) = 1
          /\ ApprovalsOf(sessionPolicies, b)[1].status = "pending"
          /\ Len(HistoryOf(sessionPolicies, b)) = 1
          /\ attempts[a].count > 0
          /\ attempts[b].count = 0
          /\ fwRet.op = "resolveApproval" /\ fwRet.session = a
    /\ Len(activeWorkflows) = 2
    /\ \E v \in 1..2, w \in 1..2 :
          /\ activeWorkflows[v].status = "cancelled"
          /\ activeWorkflows[w].status = "in_progress"
          /\ wfRet.op = "cancelWorkflow" /\ wfRet.wf = v

\* ------------------------------------------------------------------ C24
\* C24: once session s1 has been initialized with gmail provenance, no later
\* checkToolAccess for s1 returns allowed=true for a hard-denied tool, whatever
\* happened in between: re-initialization, eviction at capacity, or removal by
\* cleanupExpiredSessions.
C24_HardDeniedForGood ==
    (/\ fwRet.op = "checkToolAccess"
     /\ fwRet.session = "s1"
     /\ normalizeToolName(fwRet.tool) \in HARD_DENIED_TOOLS) => ~fwRet.decision.allowed

\* C24 for as long as the session id has a policy, re-initialized or not.
C24_HardDeniedWhilePolicy ==
    (/\ fwRet.op = "checkToolAccess"
     /\ fwRet.session = "s1"
     /\ PolicyIndex(sessionPolicies, "s1") # 0
     /\ normalizeToolName(fwRet.tool) \in HARD_DENIED_TOOLS) => ~fwRet.decision.allowed

\* ------------------------------------------------------------------ C25
AllStepsApproved(wf) ==
    \A i \in 1..Len(wf.steps) :
        wf.steps[i].status = "completed" /\ wf.steps[i].approved = "yes"

\* C25: whenever resolveApproval returns allApproved=true, or a workflow has
\* status completed, every approval step of that workflow is completed with
\* result.approved=true: no workflow with a failed or skipped step is reported as
\* all-approved, under any sequence of start, resolve, cancel and expiry.
C25_AllApprovedMeansAll ==
    /\ (wfRet.op = "resolveApproval" /\ ~wfRet.threw /\ wfRet.allApproved) =>
           AllStepsApproved(activeWorkflows[wfRet.wf])
    /\ \A w \in 1..Len(activeWorkflows) :
           activeWorkflows[w].status = "completed" => AllStepsApproved(activeWorkflows[w])

\* ------------------------------------------------------------------ C26
\* The completed steps of the workflow are its first ones.
CompletedIsPrefix(wf) ==
    \A i \in 1..Len(wf.steps), j \in 1..Len(wf.steps) :
        (i < j /\ wf.steps[j].status = "completed") => wf.steps[i].status = "completed"

\* C26: the approval steps of a workflow are resolved strictly in sequence:
\* resolveApproval writes a step only if that step is in_progress in an
\* in_progress workflow, so the completed steps of a workflow always form a prefix
\* of its steps and a pending, skipped, completed or failed step is never resolved.
C26_ResolvedInSequence ==
    /\ Resolved => /\ wfRet.pre.status = "in_progress"
                   /\ wfRet.pre.steps[ResolvedAt].status = "in_progress"
    /\ \A w \in 1..Len(activeWorkflows) : CompletedIsPrefix(activeWorkflows[w])

\* ------------------------------------------------------------------ C27
\* The handler has answered a message it assessed and did not turn away.
Assessed == Answered /\ ingress.resp.status \in {"quarantined", "processed"}

\* C27: in the envelope the handler builds, the recommendation and the quarantine
\* decision agree with the final risk score: the recommendation is what the
\* threshold ladder assigns to the score after the ML result was blended in, and
\* the message is quarantined exactly when quarantine is enabled and that score is
\* at or above riskThreshold.
C27_RecommendationFollowsScore ==
    Assessed =>
        /\ ingress.recommendation = Recommendation(ingress.score, config)
        /\ ingress.resp.status = "quarantined" <=>
               (config.quarantineEnabled /\ ingress.score >= config.riskThreshold)

\* C27 with the heuristic score in place of the blended one.
C27_RecommendationFollowsHeuristic ==
    Assessed =>
        /\ ingress.recommendation = Recommendation(ingress.heuristic, config)
        /\ ingress.resp.status = "quarantined" <=>
               (config.quarantineEnabled /\ ingress.heuristic >= config.riskThreshold)

\* ------------------------------------------------------------------ C28
\* C28: an approval request cannot be approved after its expiry time: once the
\* clock has passed its expiresAt, resolveApproval with approved=true does not set
\* it to approved, and getPendingApprovals no longer returns it.
C28_NoApprovalAfterExpiry ==
    \A s \in SessionUniverse :
        /\ \A i \in 1..Len(ApprovalsOf(sessionPolicies, s)) :
              LET a == ApprovalsOf(sessionPolicies, s)[i]
              IN a.status = "approved" => a.resolvedAt <= a.expiresAt
        /\ \A i \in 1..Len(FirewallGetPendingApprovals(sessionPolicies, s)) :
              now <= FirewallGetPendingApprovals(sessionPolicies, s)[i].expiresAt

\* ------------------------------------------------------------------ C29
\* C29: the result resolveApproval returns reflects the workflow status produced by
\* that call's own transition, even when another operation on the same workflow
\* ran while the call was suspended at its storage write.
C29_ResultFromOwnTransition ==
    resolving.stage = "returned" =>
        /\ resolving.workflowComplete = (resolving.own \in {"completed", "failed"})
        /\ resolving.allApproved = (resolving.own = "completed")

\* ------------------------------------------------------------------ C30
\* C30: every workflow that has been started eventually reaches a terminal status
\* (completed, failed or cancelled), whether or not anyone resolves its steps, when
\* the clock advances and checkExpiredWorkflows is called periodically; a workflow
\* with zero steps included.
C30_StartedEventuallyTerminal ==
    \A w \in WorkflowIds :
        (Known(w) /\ activeWorkflows[w].status = "in_progress")
            ~> (Known(w) /\ activeWorkflows[w].status \in TerminalStatus)

\* C30: a started workflow with zero steps, which nobody can resolve, failed by
\* checkExpiredWorkflows.
C30_Witness ==
    /\ wfRet.op = "checkExpiredWorkflows"
    /\ \E w \in wfRet.expired :
          /\ activeWorkflows[w].steps = <<>>
          /\ activeWorkflows[w].status = "failed"

====
